---- MODULE Spec2Model ----
(***************************************************************************)
(* Model of the tunnel protocol and the route worker loop of tcp-tunnel    *)
(* (veloxid): Tunnel::init / Tunnel::run / Tunnel::read_write of           *)
(* src/src/tunnel.rs and connect / start_connection of                     *)
(* src/src/connection.rs.                                                  *)
(*                                                                         *)
(* Two processes run start_connection.  Process "R" owns a tunnel-mode     *)
(* inbound endpoint (a listener) and a direct outbound endpoint; process   *)
(* "C" owns a tunnel-mode outbound endpoint that dials R's listener and a  *)
(* direct outbound endpoint.  The direct outbound endpoints dial targets   *)
(* that belong to the environment.  Every action is one await-to-await     *)
(* segment of the code.  An Instant is kept as its offset, in seconds,     *)
(* from the current reading of the clock: Instant::now() is Now, and when  *)
(* d seconds pass every stored instant moves d closer to Now, where it     *)
(* stays once it is reached (the code only asks whether an instant is      *)
(* still ahead of Instant::now()).                                         *)
(***************************************************************************)
EXTENDS Integers, Sequences, FiniteSets, TLC

(***************************************************************************)
(* Bounds of the model.                                                    *)
(***************************************************************************)
MaxConns == 3        \* TCP connections opened in one behaviour
MaxPayload == 1      \* payload bytes a direct target writes on one stream
MaxRefused == 1      \* dials the environment lets fail in one behaviour
MaxPlain == 3        \* bytes of a plaintext put through the ciphers

(***************************************************************************)
(* Program constants.                                                      *)
(***************************************************************************)
AUTH_TIMEOUT == 5
NONCE_TIMEOUT == 5
CONNREF_TIMEOUT == 5
SECRET_REJECTED_TIMEOUT == 30
NONCE_EARLY_EOF_TIMEOUT == 15
BAN_LENGTH == 300
NONCE_LEN == 12
AUTH_LEN == 4
BUFFER_LEN == 8192
START_OK == 1
START_MISMATCH == 2

\* b"AUTH"
AUTH == <<65, 85, 84, 72>>

(***************************************************************************)
(* Bytes and the stream cipher.  A key stands for the 32-byte secret, a    *)
(* nonce is the 12-byte sequence itself.  Keystream is the keystream byte  *)
(* of (key, nonce) at a position; distinct keys give keystreams that       *)
(* differ at every position, distinct nonces too.                          *)
(***************************************************************************)
RECURSIVE XorBits(_, _, _)
XorBits(a, b, n) ==
    IF n = 0 THEN 0
    ELSE ((a + b) % 2) + 2 * XorBits(a \div 2, b \div 2, n - 1)

Xor(a, b) == XorBits(a, b, 8)

Keys == {17, 42}
KeyS == 17

\* generate_random_nonce: the generator seeded with rng yields, for the
\* k-th connection, 12 bytes that differ from connection to connection
Seeds == {0, 131}
GenerateNonce(seed, k) == [i \in 1..NONCE_LEN |-> (seed + 7 * i + 31 * k) % 256]

Keystream(key, nonce, pos) ==
    (key * 7 + nonce[(pos % NONCE_LEN) + 1] * 3 + nonce[1] * 5 + pos * 31) % 256

\* ChaCha20::new(&secret.into(), &nonce.into())
NewCipher(key, nonce) == [key |-> key, nonce |-> nonce, pos |-> 0]

\* a keystream application that leaves the key itself in the buffer
KeystreamOutKey(cipher, buf) == [i \in 1..Len(buf) |-> cipher.key]

\* the bytes of cipher.apply_keystream(buf)
KeystreamOut(cipher, buf) ==
    [i \in 1..Len(buf) |->
        Xor(buf[i], Keystream(cipher.key, cipher.nonce, cipher.pos + i - 1))]

\* the cipher after cipher.apply_keystream(buf)
KeystreamAdvance(cipher, buf) == [cipher EXCEPT !.pos = @ + Len(buf)]

RECURSIVE ApplyAll(_, _)
\* for cipher in &mut ciphers { cipher.apply_keystream(&mut buffer[..n]) }
ApplyAll(ciphers, buf) ==
    IF ciphers = <<>> THEN buf
    ELSE ApplyAll(Tail(ciphers), KeystreamOut(Head(ciphers), buf))

\* ciphers whose counters stay where they are
AdvanceAllStuck(ciphers, n) == ciphers

\* only the first cipher of the list moves on
AdvanceAllFirst(ciphers, n) ==
    [i \in 1..Len(ciphers) |->
        IF i = 1 THEN [ciphers[i] EXCEPT !.pos = @ + n] ELSE ciphers[i]]

\* every cipher of the list has moved on by the n bytes it was applied to
AdvanceAll(ciphers, n) ==
    [i \in 1..Len(ciphers) |-> [ciphers[i] EXCEPT !.pos = @ + n]]

(***************************************************************************)
(* Static configuration: processes, endpoints, workers.                    *)
(***************************************************************************)
Procs == {"R", "C"}
Ip(p) == IF p = "R" THEN "ipR" ELSE "ipC"
IPs == {"ipR", "ipC"}

Workers == {"r1", "r2", "c1"}
ProcOf(w) == IF w = "c1" THEN "C" ELSE "R"

\* Endpoint of config.rs: direction, kind; target names what an outbound
\* endpoint dials ("RT": the listener of endpoint RT, "env": a target of the
\* environment).
Endpoints ==
    [ RT |-> [direction |-> "Inbound",  kind |-> "Tunnel", target |-> "none"],
      RD |-> [direction |-> "Outbound", kind |-> "Direct", target |-> "env"],
      CT |-> [direction |-> "Outbound", kind |-> "Tunnel", target |-> "RT"],
      CD |-> [direction |-> "Outbound", kind |-> "Direct", target |-> "env"] ]

Listeners == {"RT"}
TunnelEp(p) == IF p = "R" THEN "RT" ELSE "CT"
DirectEp(p) == IF p = "R" THEN "RD" ELSE "CD"

\* Route.endpoints of a process: the tunnel endpoint first or second
RoutesOf(p) == { <<TunnelEp(p), DirectEp(p)>>, <<DirectEp(p), TunnelEp(p)>> }
Routes == UNION { RoutesOf(p) : p \in Procs }

NoConn == [variant |-> "None"]
Other(side) == IF side = "d" THEN "l" ELSE "d"

\* Instant::now()
Now == 0

VARIABLES
    route,      \* route[p]: the pair <<endpoint A, endpoint B>> of p's workers
    secret,     \* secret[ep]: the key of a tunnel-mode endpoint
    ban_list,   \* ban_list[h]: the map IpAddr -> Instant behind handle h
    lock,       \* lock[l]: the worker holding the listener mutex, or "free"
    backlog,    \* backlog[l]: connections established and not yet accepted
    streams,    \* streams[c]: the TCP connection c
    pc,         \* pc[w]: where worker w is
    stage,      \* stage[w]: "A" or "B", the connect call w is in
    cur,        \* cur[w]: the stream of the running connect / Tunnel::init
    hs,         \* hs[w]: locals of Tunnel::init (nonce, deadline)
    held,       \* held[w]: the Connection values ts_a, ts_b
    err,        \* err[w]: the last error connect returned to w
    timer,      \* timer[w]: sleep of the backoff (start, until)
    tasks,      \* tasks[w]: the two copy tasks of the relay
    refused,    \* dials that the environment has let fail so far
    rng,        \* the seed of the random generator behind the nonces
    aborted,    \* copy tasks that were aborted and are not yet cancelled
    cx          \* the byte pipeline of the cipher laws (idle in the program)

vars == <<route, secret, ban_list, lock, backlog, streams, pc, stage,
          cur, hs, held, err, timer, tasks, refused, rng, aborted, cx>>

(***************************************************************************)
(* TCP streams.  Side "d" dialed, side "l" accepted.  out[side] is every   *)
(* byte the side has written, rd[side] how many bytes of the other side's  *)
(* it has consumed; fin: the write direction is shut down; gone: the       *)
(* socket is closed; rst[side]: the side has received a reset.             *)
(***************************************************************************)
NewStream(ep, dproc) ==
    [ ep |-> ep, dproc |-> dproc,
      out |-> [d |-> <<>>, l |-> <<>>],
      rd |-> [d |-> 0, l |-> 0],
      fin |-> [d |-> FALSE, l |-> FALSE],
      gone |-> [d |-> FALSE, l |-> FALSE],
      rst |-> [d |-> FALSE, l |-> FALSE] ]

\* bytes written by the other side that `side` has not yet consumed
Avail(s, side) ==
    SubSeq(s.out[Other(side)], s.rd[side] + 1, Len(s.out[Other(side)]))

\* stream.peer_addr()?.ip()
PeerIp(s, side) == IF side = "l" THEN Ip(s.dproc) ELSE Ip("R")

\* a write that the kernel accepted; data sent to a closed socket is answered
\* by a reset
SWrite(s, side, bytes) ==
    [s EXCEPT !.out[side] = @ \o bytes,
              !.rst[side] = @ \/ s.gone[Other(side)]]

SRead(s, side, n) == [s EXCEPT !.rd[side] = @ + n]

\* a shutdown that sends nothing
SShutdownNone(s, side) == s

\* write_stream.shutdown()
SShutdown(s, side) == [s EXCEPT !.fin[side] = TRUE]

\* a connection of which the program holds no socket any more
Dead == [NewStream("dead", "none") EXCEPT
            !.fin = [d |-> TRUE, l |-> TRUE], !.gone = [d |-> TRUE, l |-> TRUE]]

\* the socket is dropped; unread incoming data makes the kernel send a reset.
\* Once no socket of the program is left on the connection it is forgotten.
SClose(s, side) ==
    IF s.gone[Other(side)] \/ (s.ep = "env" /\ side = "d")
    THEN Dead
    ELSE [s EXCEPT !.gone[side] = TRUE,
                   !.fin[side] = TRUE,
                   !.rst[Other(side)] = @ \/ (Avail(s, side) # <<>>)]

\* what a read of n bytes by `side` can return right now
CanRead(s, side, n) == Len(Avail(s, side)) >= n
ReadEof(s, side, n) ==
    /\ Len(Avail(s, side)) < n
    /\ s.fin[Other(side)]
    /\ ~s.rst[side]
ReadReset(s, side, n) ==
    /\ Len(Avail(s, side)) < n
    /\ s.rst[side]

\* a `write` that takes one byte less than it was given
WriteLenShort(n) == n - 1

\* how many bytes a `write` of n bytes takes: the handshake writes are the
\* first bytes on an empty send buffer, which takes them whole
WriteLen(n) == n

(***************************************************************************)
(* Connection values (connection.rs, enum Connection) and errors.          *)
(***************************************************************************)
TunnelConn(c, side, nonce, key, inbound) ==
    [variant |-> "Tunnel", stream |-> c, side |-> side, nonce |-> nonce,
     secret |-> key, is_inbound |-> inbound]

DirectConn(c, side) ==
    [variant |-> "Direct", stream |-> c, side |-> side]

Error(kind, ip) == [kind |-> kind, ip |-> ip]
NoError == [kind |-> "none", ip |-> "none", stage |-> "A"]

IoKinds == {"ConnectionRefused", "UnexpectedEof", "IoOther"}

NoTask == [st |-> "none"]
NoTasks == [t1 |-> NoTask, t2 |-> NoTask]
NoHs == [nonce |-> <<>>, deadline |-> Now]
NoTimer == [until |-> Now]

\* ban_list.lock().await.get(&ip) with time > Instant::now()
IsBanned(bl, ip, t) == ip \in DOMAIN bl /\ bl[ip] > t

\* an insert that stores Instant::now() itself
BanInsertMapNow(bl, ip, t) ==
    [x \in (DOMAIN bl) \cup {ip} |-> IF x = ip THEN t ELSE bl[x]]

\* ban_list.lock().await.insert(ip, Instant::now() + BAN_LENGTH)
BanInsertMap(bl, ip, t) ==
    [x \in (DOMAIN bl) \cup {ip} |-> IF x = ip THEN t + BAN_LENGTH ELSE bl[x]]

\* main.rs 62, 82: main creates one DashMap and hands every worker
\* ban_list.clone(); the clone of a DashMap is a new map with a copy of the
\* entries (here none), so each worker owns the map it looks up and inserts in
BanListOf(w) == w
BanLists == { BanListOf(w) : w \in Workers }

\* no bytes are in the pipeline of the cipher laws
NoCx == [kind |-> "none"]

EpOf(w) == IF stage[w] = "A" THEN route[ProcOf(w)][1] ELSE route[ProcOf(w)][2]

\* the state after main has spawned the workers in `spawned`, for the
\* configurations in routes, keys and seeds
InitWith(spawned, routes(_), keys, seeds, pipes) ==
    /\ route \in { r \in [Procs -> Routes] : \A p \in Procs : r[p] \in routes(p) }
    /\ secret \in { [RT |-> KeyS, CT |-> k] : k \in keys }
    /\ rng \in seeds
    /\ ban_list = [h \in BanLists |-> <<>>]
    /\ lock = [l \in Listeners |-> "free"]
    /\ backlog = [l \in Listeners |-> <<>>]
    /\ streams = <<>>
    /\ pc = [w \in Workers |-> IF w \in spawned THEN "connect" ELSE "off"]
    /\ stage = [w \in Workers |-> "A"]
    /\ cur = [w \in Workers |-> 0]
    /\ hs = [w \in Workers |-> NoHs]
    /\ held = [w \in Workers |-> [A |-> NoConn, B |-> NoConn]]
    /\ err = [w \in Workers |-> NoError]
    /\ timer = [w \in Workers |-> NoTimer]
    /\ tasks = [w \in Workers |-> NoTasks]
    /\ refused = 0
    /\ aborted = {}
    /\ cx \in pipes

\* one worker per route (Route.size = 1)
Init == InitWith({"r1", "c1"}, RoutesOf, Keys, Seeds, {NoCx})

TunnelFirst(p) == { <<TunnelEp(p), DirectEp(p)>> }

\* two workers on R's route (Route.size = 2), the tunnel endpoint first
InitPool == InitWith(Workers, TunnelFirst, Keys, {0}, {NoCx})

(***************************************************************************)
(* start_connection: what the worker does with an error of connect.        *)
(* The result is the backoff: sleep (with its length), ban (with the       *)
(* address) or none.                                                       *)
(***************************************************************************)
Sleep(d) == [act |-> "sleep", dur |-> d, ip |-> "none"]
Ban(ip) == [act |-> "ban", dur |-> 0, ip |-> ip]
NoDelay == [act |-> "none", dur |-> 0, ip |-> "none"]

\* a stage A arm that bans on SecretMismatch only
HandleErrANoTimeoutBan(e) ==
    IF e.kind \in IoKinds
    THEN IF e.kind = "ConnectionRefused" THEN Sleep(CONNREF_TIMEOUT) ELSE NoDelay
    ELSE CASE e.kind = "SecretRejected" -> Sleep(SECRET_REJECTED_TIMEOUT)
           [] e.kind = "NonceEarlyEOF" -> Sleep(NONCE_EARLY_EOF_TIMEOUT)
           [] e.kind = "SecretMismatch" -> Ban(e.ip)
           [] OTHER -> NoDelay

\* a stage A arm whose NonceEarlyEOF sleep is the ConnectionRefused one
HandleErrAShortEof(e) ==
    IF e.kind \in IoKinds
    THEN IF e.kind = "ConnectionRefused" THEN Sleep(CONNREF_TIMEOUT) ELSE NoDelay
    ELSE CASE e.kind = "SecretRejected" -> Sleep(SECRET_REJECTED_TIMEOUT)
           [] e.kind = "NonceEarlyEOF" -> Sleep(CONNREF_TIMEOUT)
           [] e.kind \in {"SecretMismatch", "Timeout"} -> Ban(e.ip)
           [] OTHER -> NoDelay

\* connection.rs 126-159, the Err arm of stage A
HandleErrA(e) ==
    IF e.kind \in IoKinds
    THEN IF e.kind = "ConnectionRefused" THEN Sleep(CONNREF_TIMEOUT) ELSE NoDelay
    ELSE CASE e.kind = "SecretRejected" -> Sleep(SECRET_REJECTED_TIMEOUT)
           [] e.kind = "NonceEarlyEOF" -> Sleep(NONCE_EARLY_EOF_TIMEOUT)
           [] e.kind \in {"SecretMismatch", "Timeout"} -> Ban(e.ip)
           [] OTHER -> NoDelay

\* a stage B arm whose SecretRejected sleep is the ConnectionRefused one
HandleErrBSameSleep(e) ==
    IF e.kind \in IoKinds
    THEN IF e.kind = "ConnectionRefused" THEN Sleep(CONNREF_TIMEOUT) ELSE NoDelay
    ELSE CASE e.kind = "SecretRejected" -> Sleep(CONNREF_TIMEOUT)
           [] e.kind = "NonceEarlyEOF" -> Sleep(NONCE_EARLY_EOF_TIMEOUT)
           [] e.kind \in {"SecretMismatch", "Timeout"} -> Ban(e.ip)
           [] OTHER -> NoDelay

\* connection.rs 164-198, the Err arm of stage B
HandleErrB(e) ==
    IF e.kind \in IoKinds
    THEN IF e.kind = "ConnectionRefused" THEN Sleep(CONNREF_TIMEOUT) ELSE NoDelay
    ELSE CASE e.kind = "SecretRejected" -> Sleep(SECRET_REJECTED_TIMEOUT)
           [] e.kind = "NonceEarlyEOF" -> Sleep(NONCE_EARLY_EOF_TIMEOUT)
           [] e.kind \in {"SecretMismatch", "Timeout"} -> Ban(e.ip)
           [] OTHER -> NoDelay

\* a Connection value that is forgotten with its socket left open
DropConnLeak(ss, conn) == ss

\* a Connection value is dropped: its socket closes
DropConn(ss, conn) ==
    IF conn.variant = "None" THEN ss
    ELSE [ss EXCEPT ![conn.stream] = SClose(@, conn.side)]

\* a failure of stage B that tells the peer of an inbound tunnel A to start
\* before A is dropped
FailSayReady(w, e, ss) ==
    LET h == IF stage[w] = "A" THEN HandleErrA(e) ELSE HandleErrB(e)
        a == held[w].A
    IN /\ streams' = IF stage[w] = "B"
                     THEN DropConn(IF a.variant = "Tunnel"
                                   THEN [ss EXCEPT ![a.stream] =
                                            SWrite(@, a.side, <<START_OK>>)]
                                   ELSE ss, a)
                     ELSE ss
       /\ held' = [held EXCEPT ![w] = [A |-> NoConn, B |-> NoConn]]
       /\ err' = [err EXCEPT ![w] =
                     [kind |-> e.kind, ip |-> e.ip, stage |-> stage[w]]]
       /\ cur' = [cur EXCEPT ![w] = 0]
       /\ hs' = [hs EXCEPT ![w] = NoHs]
       /\ pc' = [pc EXCEPT ![w] =
                    CASE h.act = "sleep" -> "sleep"
                      [] h.act = "ban" -> "ban"
                      [] OTHER -> "connect"]
       /\ stage' = [stage EXCEPT ![w] = IF h.act = "none" THEN "A" ELSE @]
       /\ timer' = [timer EXCEPT ![w] =
                       IF h.act = "sleep"
                       THEN [until |-> Now + h.dur]
                       ELSE NoTimer]

\* connect returned Err(e) to worker w; ss is the stream map at that point.
\* In stage B ts_a is dropped first (connection.rs 165).  The worker is then
\* asleep, waiting for the ban-list mutex, or back at the top of the loop.
Fail(w, e, ss) ==
    LET h == IF stage[w] = "A" THEN HandleErrA(e) ELSE HandleErrB(e)
    IN /\ streams' = IF stage[w] = "B" THEN DropConn(ss, held[w].A) ELSE ss
       /\ held' = [held EXCEPT ![w] = [A |-> NoConn, B |-> NoConn]]
       /\ err' = [err EXCEPT ![w] =
                     [kind |-> e.kind, ip |-> e.ip, stage |-> stage[w]]]
       /\ cur' = [cur EXCEPT ![w] = 0]
       /\ hs' = [hs EXCEPT ![w] = NoHs]
       /\ pc' = [pc EXCEPT ![w] =
                    CASE h.act = "sleep" -> "sleep"
                      [] h.act = "ban" -> "ban"
                      [] OTHER -> "connect"]
       /\ stage' = [stage EXCEPT ![w] = IF h.act = "none" THEN "A" ELSE @]
       /\ timer' = [timer EXCEPT ![w] =
                       IF h.act = "sleep"
                       THEN [until |-> Now + h.dur]
                       ELSE NoTimer]

\* connect returned Ok(conn) to worker w: ts_a or ts_b is bound
Acquire(w, conn, ss) ==
    /\ streams' = ss
    /\ cur' = [cur EXCEPT ![w] = 0]
    /\ hs' = [hs EXCEPT ![w] = NoHs]
    /\ IF stage[w] = "A"
       THEN /\ held' = [held EXCEPT ![w].A = conn]
            /\ stage' = [stage EXCEPT ![w] = "B"]
            /\ pc' = [pc EXCEPT ![w] = "connect"]
       ELSE /\ held' = [held EXCEPT ![w].B = conn]
            /\ stage' = stage
            /\ pc' = [pc EXCEPT ![w] = "relay"]
    /\ UNCHANGED <<err, timer, refused, rng>>

\* sleep(..).await is over: continue
Wake(w) ==
    /\ pc[w] = "sleep"
    /\ Now >= timer[w].until
    /\ pc' = [pc EXCEPT ![w] = "connect"]
    /\ stage' = [stage EXCEPT ![w] = "A"]
    /\ timer' = [timer EXCEPT ![w] = NoTimer]
    /\ UNCHANGED <<route, secret, ban_list, lock, backlog, streams, cur,
                   hs, held, err, tasks, refused, rng, aborted, cx>>

\* connection.rs 147-152 / 186-191: the ban-list mutex is taken, the address
\* inserted with Instant::now() + BAN_LENGTH, continue
BanInsert(w) ==
    /\ pc[w] = "ban"
    /\ ban_list' = [ban_list EXCEPT ![BanListOf(w)] = BanInsertMap(@, err[w].ip, Now)]
    /\ pc' = [pc EXCEPT ![w] = "connect"]
    /\ stage' = [stage EXCEPT ![w] = "A"]
    /\ UNCHANGED <<route, secret, lock, backlog, streams, cur, hs, held,
                   err, timer, tasks, refused, rng, aborted, cx>>

(***************************************************************************)
(* connect, inbound endpoint (connection.rs 73-96).                        *)
(***************************************************************************)
IsEp(w, dir) == pc[w] = "connect" /\ Endpoints[EpOf(w)].direction = dir

\* a lock that is granted while another worker holds it
ListenerLockFree(w) ==
    /\ IsEp(w, "Inbound")
    /\ lock' = [lock EXCEPT ![EpOf(w)] = w]
    /\ pc' = [pc EXCEPT ![w] = "accept"]
    /\ err' = [err EXCEPT ![w] = NoError]
    /\ UNCHANGED <<route, secret, ban_list, backlog, streams, stage, cur,
                   hs, held, timer, tasks, refused, rng, aborted, cx>>

\* listener_lock.lock().await
ListenerLock(w) ==
    /\ IsEp(w, "Inbound")
    /\ lock[EpOf(w)] = "free"
    /\ lock' = [lock EXCEPT ![EpOf(w)] = w]
    /\ pc' = [pc EXCEPT ![w] = "accept"]
    /\ err' = [err EXCEPT ![w] = NoError]
    /\ UNCHANGED <<route, secret, ban_list, backlog, streams, stage, cur,
                   hs, held, timer, tasks, refused, rng, aborted, cx>>

\* an accept that returns with the listener's lock still held
AcceptHoldLock(w) ==
    /\ pc[w] = "accept"
    /\ lock[EpOf(w)] = w
    /\ backlog[EpOf(w)] # <<>>
    /\ LET c == Head(backlog[EpOf(w)])
       IN /\ backlog' = [backlog EXCEPT ![EpOf(w)] = Tail(@)]
          /\ lock' = lock
          /\ IF Endpoints[EpOf(w)].kind = "Tunnel"
             THEN /\ cur' = [cur EXCEPT ![w] = c]
                  /\ pc' = [pc EXCEPT ![w] = "bancheck"]
                  /\ UNCHANGED <<streams, stage, hs, held, err, timer, refused, rng>>
             ELSE Acquire(w, DirectConn(c, "l"), streams)
    /\ UNCHANGED <<route, secret, ban_list, tasks, refused, rng, aborted, cx>>

\* listener.accept().await?; drop(listener).  A direct endpoint returns
\* Connection::Direct(stream) at once.
Accept(w) ==
    /\ pc[w] = "accept"
    /\ lock[EpOf(w)] = w
    /\ backlog[EpOf(w)] # <<>>
    /\ LET c == Head(backlog[EpOf(w)])
       IN /\ backlog' = [backlog EXCEPT ![EpOf(w)] = Tail(@)]
          /\ lock' = [lock EXCEPT ![EpOf(w)] = "free"]
          /\ IF Endpoints[EpOf(w)].kind = "Tunnel"
             THEN /\ cur' = [cur EXCEPT ![w] = c]
                  /\ pc' = [pc EXCEPT ![w] = "bancheck"]
                  /\ UNCHANGED <<streams, stage, hs, held, err, timer, refused, rng>>
             ELSE Acquire(w, DirectConn(c, "l"), streams)
    /\ UNCHANGED <<route, secret, ban_list, tasks, refused, rng, aborted, cx>>

\* connection.rs 83-87: the lookup under the ban-list mutex
BannedAt(w) ==
    IsBanned(ban_list[BanListOf(w)], PeerIp(streams[cur[w]], "l"), Now)

\* a ban check that comes after the nonce has been written
BanCheckRejectLate(w) ==
    /\ pc[w] = "bancheck"
    /\ BannedAt(w)
    /\ Fail(w, Error("ConnAttemptFromBannedIP", "none"),
            [streams EXCEPT ![cur[w]] =
                SClose(SWrite(@, "l", GenerateNonce(rng, cur[w])), "l")])
    /\ UNCHANGED <<route, secret, ban_list, lock, backlog, tasks, refused, rng, aborted, cx>>

\* a banned address: ConnAttemptFromBannedIP, the stream is dropped
BanCheckReject(w) ==
    /\ pc[w] = "bancheck"
    /\ BannedAt(w)
    /\ Fail(w, Error("ConnAttemptFromBannedIP", "none"),
            [streams EXCEPT ![cur[w]] = SClose(@, "l")])
    /\ UNCHANGED <<route, secret, ban_list, lock, backlog, tasks, refused, rng, aborted, cx>>

\* not banned: Tunnel::init(stream, true, secret) starts
BanCheckPass(w) ==
    /\ pc[w] = "bancheck"
    /\ ~BannedAt(w)
    /\ pc' = [pc EXCEPT ![w] = "ib_nonce"]
    /\ UNCHANGED <<route, secret, ban_list, lock, backlog, streams, stage,
                   cur, hs, held, err, timer, tasks, refused, rng, aborted, cx>>

(***************************************************************************)
(* Tunnel::init, inbound branch (tunnel.rs 33-55).                         *)
(***************************************************************************)
CurStream(w) == streams[cur[w]]

\* tunnel.rs 35-36: the nonce is generated and written; the auth timeout
\* starts
InitSendNonce(w) ==
    /\ pc[w] = "ib_nonce"
    /\ LET n == GenerateNonce(rng, cur[w])
       IN /\ streams' = [streams EXCEPT ![cur[w]] =
                            SWrite(@, "l", SubSeq(n, 1, WriteLen(NONCE_LEN)))]
          /\ hs' = [hs EXCEPT ![w] = [nonce |-> n, deadline |-> Now + AUTH_TIMEOUT]]
    /\ pc' = [pc EXCEPT ![w] = "ib_auth"]
    /\ UNCHANGED <<route, secret, ban_list, lock, backlog, stage, cur,
                   held, err, timer, tasks, refused, rng, aborted, cx>>

\* tunnel.rs 47: the 4 bytes read, after cipher.apply_keystream(&mut auth)
DecryptAuth(key, nonce, bytes) == KeystreamOut(NewCipher(key, nonce), bytes)

\* tunnel.rs 49: auth != *b"AUTH"
AuthRejected(key, nonce, bytes) == DecryptAuth(key, nonce, bytes) # AUTH

ReceivedAuth(w) == SubSeq(Avail(CurStream(w), "l"), 1, AUTH_LEN)

\* an init that writes the starting byte as soon as the token verifies
AcceptAuthReady(s) == SWrite(SRead(s, "l", AUTH_LEN), "l", <<START_OK>>)

\* tunnel.rs 41-54: the stream after the token verified: its 4 bytes are
\* consumed, nothing is written
AcceptAuth(s) == SRead(s, "l", AUTH_LEN)

\* tunnel.rs 41-54: the 4 bytes arrived in time and decrypt to AUTH
InitAuthOk(w) ==
    /\ pc[w] = "ib_auth"
    /\ CanRead(CurStream(w), "l", AUTH_LEN)
    /\ ~AuthRejected(secret[EpOf(w)], hs[w].nonce, ReceivedAuth(w))
    /\ Acquire(w, TunnelConn(cur[w], "l", hs[w].nonce, secret[EpOf(w)], TRUE),
               [streams EXCEPT ![cur[w]] = AcceptAuth(@)])
    /\ UNCHANGED <<route, secret, ban_list, lock, backlog, tasks, refused, rng, aborted, cx>>

\* tunnel.rs 49-52: they do not: 0x02 is written, SecretMismatch(peer ip).
\* A write on a reset connection fails and its error is returned instead.
InitAuthMismatch(w) ==
    /\ pc[w] = "ib_auth"
    /\ CanRead(CurStream(w), "l", AUTH_LEN)
    /\ AuthRejected(secret[EpOf(w)], hs[w].nonce, ReceivedAuth(w))
    /\ LET s == SRead(CurStream(w), "l", AUTH_LEN)
       IN IF s.rst["l"]
          THEN Fail(w, Error("IoOther", "none"),
                    [streams EXCEPT ![cur[w]] = SClose(s, "l")])
          ELSE Fail(w, Error("SecretMismatch", PeerIp(s, "l")),
                    [streams EXCEPT ![cur[w]] =
                        SClose(SWrite(s, "l", <<START_MISMATCH>>), "l")])
    /\ UNCHANGED <<route, secret, ban_list, lock, backlog, tasks, refused, rng, aborted, cx>>

\* a timeout that is reported to the peer with 0x02
InitAuthTimeoutNotify(w) ==
    /\ pc[w] = "ib_auth"
    /\ Now >= hs[w].deadline
    /\ ~CanRead(CurStream(w), "l", AUTH_LEN)
    /\ ~ReadEof(CurStream(w), "l", AUTH_LEN)
    /\ ~ReadReset(CurStream(w), "l", AUTH_LEN)
    /\ Fail(w, Error("Timeout", PeerIp(CurStream(w), "l")),
            [streams EXCEPT ![cur[w]] =
                SClose(SWrite(@, "l", <<START_MISMATCH>>), "l")])
    /\ UNCHANGED <<route, secret, ban_list, lock, backlog, tasks, refused, rng, aborted, cx>>

\* tunnel.rs 45: the timeout elapsed with the read still pending
InitAuthTimeout(w) ==
    /\ pc[w] = "ib_auth"
    /\ Now >= hs[w].deadline
    /\ ~CanRead(CurStream(w), "l", AUTH_LEN)
    /\ ~ReadEof(CurStream(w), "l", AUTH_LEN)
    /\ ~ReadReset(CurStream(w), "l", AUTH_LEN)
    /\ Fail(w, Error("Timeout", PeerIp(CurStream(w), "l")),
            [streams EXCEPT ![cur[w]] = SClose(@, "l")])
    /\ UNCHANGED <<route, secret, ban_list, lock, backlog, tasks, refused, rng, aborted, cx>>

\* an end of stream before the token that is taken for a wrong token
InitAuthIoErrMismatch(w) ==
    /\ pc[w] = "ib_auth"
    /\ \/ /\ ReadEof(CurStream(w), "l", AUTH_LEN)
          /\ Fail(w, Error("SecretMismatch", PeerIp(CurStream(w), "l")),
                  [streams EXCEPT ![cur[w]] =
                      SClose(SWrite(@, "l", <<START_MISMATCH>>), "l")])
       \/ /\ ReadReset(CurStream(w), "l", AUTH_LEN)
          /\ Fail(w, Error("IoOther", "none"),
                  [streams EXCEPT ![cur[w]] = SClose(@, "l")])
    /\ UNCHANGED <<route, secret, ban_list, lock, backlog, tasks, refused, rng, aborted, cx>>

\* tunnel.rs 43: read_exact failed (end of stream, reset): read?
InitAuthIoErr(w) ==
    /\ pc[w] = "ib_auth"
    /\ \/ /\ ReadEof(CurStream(w), "l", AUTH_LEN)
          /\ Fail(w, Error("UnexpectedEof", "none"),
                  [streams EXCEPT ![cur[w]] = SClose(@, "l")])
       \/ /\ ReadReset(CurStream(w), "l", AUTH_LEN)
          /\ Fail(w, Error("IoOther", "none"),
                  [streams EXCEPT ![cur[w]] = SClose(@, "l")])
    /\ UNCHANGED <<route, secret, ban_list, lock, backlog, tasks, refused, rng, aborted, cx>>

(***************************************************************************)
(* connect, outbound endpoint (connection.rs 97-113) and Tunnel::init,     *)
(* outbound branch (tunnel.rs 56-81).                                      *)
(***************************************************************************)
\* TcpStream::connect(addr) to a listener of the model: the connection is
\* established and queued for accept; the nonce timeout starts
DialTunnel(w) ==
    /\ IsEp(w, "Outbound")
    /\ Endpoints[EpOf(w)].kind = "Tunnel"
    /\ Len(streams) < MaxConns
    /\ LET l == Endpoints[EpOf(w)].target
           c == Len(streams) + 1
       IN /\ streams' = Append(streams, NewStream(l, ProcOf(w)))
          /\ backlog' = [backlog EXCEPT ![l] = Append(@, c)]
          /\ cur' = [cur EXCEPT ![w] = c]
    /\ hs' = [hs EXCEPT ![w] = [nonce |-> <<>>, deadline |-> Now + NONCE_TIMEOUT]]
    /\ pc' = [pc EXCEPT ![w] = "ob_nonce"]
    /\ err' = [err EXCEPT ![w] = NoError]
    /\ UNCHANGED <<route, secret, ban_list, lock, stage, held, timer,
                   tasks, refused, rng, aborted, cx>>

\* TcpStream::connect(addr) to a target of the environment: established
\* (Connection::Direct), refused, or another I/O error
DialDirect(w) ==
    /\ IsEp(w, "Outbound")
    /\ Endpoints[EpOf(w)].kind = "Direct"
    /\ \/ /\ Len(streams) < MaxConns
          /\ Acquire(w, DirectConn(Len(streams) + 1, "d"),
                     Append(streams, NewStream("env", ProcOf(w))))
          /\ UNCHANGED refused
       \/ /\ refused < MaxRefused
          /\ refused' = refused + 1
          /\ \E k \in {"ConnectionRefused", "IoOther"} :
                Fail(w, Error(k, "none"), streams)
    /\ UNCHANGED <<route, secret, ban_list, lock, backlog, tasks, rng, aborted, cx>>

\* tunnel.rs 58-60: 12 bytes arrived in time
InitRecvNonce(w) ==
    /\ pc[w] = "ob_nonce"
    /\ CanRead(CurStream(w), "d", NONCE_LEN)
    /\ hs' = [hs EXCEPT ![w].nonce = SubSeq(Avail(CurStream(w), "d"), 1, NONCE_LEN)]
    /\ streams' = [streams EXCEPT ![cur[w]] = SRead(@, "d", NONCE_LEN)]
    /\ pc' = [pc EXCEPT ![w] = "ob_auth"]
    /\ UNCHANGED <<route, secret, ban_list, lock, backlog, stage, cur,
                   held, err, timer, tasks, refused, rng, aborted, cx>>

\* an end of stream that is passed on as the I/O error it is
InitNonceIoErrRaw(w) ==
    /\ pc[w] = "ob_nonce"
    /\ \/ /\ ReadEof(CurStream(w), "d", NONCE_LEN)
          /\ Fail(w, Error("UnexpectedEof", "none"),
                  [streams EXCEPT ![cur[w]] = SClose(@, "d")])
       \/ /\ ReadReset(CurStream(w), "d", NONCE_LEN)
          /\ Fail(w, Error("IoOther", "none"),
                  [streams EXCEPT ![cur[w]] = SClose(@, "d")])
    /\ UNCHANGED <<route, secret, ban_list, lock, backlog, tasks, refused, rng, aborted, cx>>

\* tunnel.rs 61-66: read_exact failed: NonceEarlyEOF on end of stream, the
\* I/O error otherwise
InitNonceIoErr(w) ==
    /\ pc[w] = "ob_nonce"
    /\ \/ /\ ReadEof(CurStream(w), "d", NONCE_LEN)
          /\ Fail(w, Error("NonceEarlyEOF", "none"),
                  [streams EXCEPT ![cur[w]] = SClose(@, "d")])
       \/ /\ ReadReset(CurStream(w), "d", NONCE_LEN)
          /\ Fail(w, Error("IoOther", "none"),
                  [streams EXCEPT ![cur[w]] = SClose(@, "d")])
    /\ UNCHANGED <<route, secret, ban_list, lock, backlog, tasks, refused, rng, aborted, cx>>

\* a nonce timeout that elapses and leaves the worker waiting
InitNonceTimeoutLost(w) ==
    /\ pc[w] = "ob_nonce"
    /\ Now >= hs[w].deadline
    /\ UNCHANGED vars

\* tunnel.rs 67: the timeout elapsed with the read still pending
InitNonceTimeout(w) ==
    /\ pc[w] = "ob_nonce"
    /\ Now >= hs[w].deadline
    /\ ~CanRead(CurStream(w), "d", NONCE_LEN)
    /\ ~ReadEof(CurStream(w), "d", NONCE_LEN)
    /\ ~ReadReset(CurStream(w), "d", NONCE_LEN)
    /\ Fail(w, Error("Timeout", PeerIp(CurStream(w), "d")),
            [streams EXCEPT ![cur[w]] = SClose(@, "d")])
    /\ UNCHANGED <<route, secret, ban_list, lock, backlog, tasks, refused, rng, aborted, cx>>

\* AUTH sent without the keystream applied
EncryptAuthPlain(key, nonce) == AUTH

\* tunnel.rs 72-73: AUTH after cipher.apply_keystream(&mut auth)
EncryptAuth(key, nonce) == KeystreamOut(NewCipher(key, nonce), AUTH)

\* tunnel.rs 70-74: the encrypted AUTH is written
InitSendAuth(w) ==
    /\ pc[w] = "ob_auth"
    /\ IF CurStream(w).rst["d"]
       THEN Fail(w, Error("IoOther", "none"),
                 [streams EXCEPT ![cur[w]] = SClose(@, "d")])
       ELSE /\ streams' = [streams EXCEPT ![cur[w]] =
                   SWrite(@, "d",
                          SubSeq(EncryptAuth(secret[EpOf(w)], hs[w].nonce),
                                 1, WriteLen(AUTH_LEN)))]
            /\ pc' = [pc EXCEPT ![w] = "ob_start"]
            /\ UNCHANGED <<stage, cur, hs, held, err, timer, refused, rng>>
    /\ UNCHANGED <<route, secret, ban_list, lock, backlog, tasks, refused, rng, aborted, cx>>

\* only 0x01 is taken for readiness
StartResultStrict(byte) ==
    IF byte = START_OK THEN "Ready" ELSE "SecretRejected"

\* tunnel.rs 76-80: if stream.read_u8().await? == 2u8 the handshake fails
\* with SecretRejected, otherwise the Tunnel is made
StartResult(byte) ==
    IF byte = START_MISMATCH THEN "SecretRejected" ELSE "Ready"

\* a wait for the starting byte that reports an end of stream as
\* NonceEarlyEOF
InitRecvStartEarlyEof(w) ==
    /\ pc[w] = "ob_start"
    /\ \/ /\ CanRead(CurStream(w), "d", 1)
          /\ LET s == SRead(CurStream(w), "d", 1)
             IN IF StartResult(Avail(CurStream(w), "d")[1]) = "SecretRejected"
                THEN Fail(w, Error("SecretRejected", "none"),
                          [streams EXCEPT ![cur[w]] = SClose(s, "d")])
                ELSE Acquire(w, TunnelConn(cur[w], "d", hs[w].nonce,
                                           secret[EpOf(w)], FALSE),
                             [streams EXCEPT ![cur[w]] = s])
       \/ /\ ReadEof(CurStream(w), "d", 1)
          /\ Fail(w, Error("NonceEarlyEOF", "none"),
                  [streams EXCEPT ![cur[w]] = SClose(@, "d")])
       \/ /\ ReadReset(CurStream(w), "d", 1)
          /\ Fail(w, Error("IoOther", "none"),
                  [streams EXCEPT ![cur[w]] = SClose(@, "d")])
    /\ UNCHANGED <<route, secret, ban_list, lock, backlog, tasks, refused, rng, aborted, cx>>

\* tunnel.rs 76-80: the starting byte: 2 is SecretRejected, any other value
\* makes the Tunnel; a failed read_u8 returns its I/O error
InitRecvStart(w) ==
    /\ pc[w] = "ob_start"
    /\ \/ /\ CanRead(CurStream(w), "d", 1)
          /\ LET s == SRead(CurStream(w), "d", 1)
             IN IF StartResult(Avail(CurStream(w), "d")[1]) = "SecretRejected"
                THEN Fail(w, Error("SecretRejected", "none"),
                          [streams EXCEPT ![cur[w]] = SClose(s, "d")])
                ELSE Acquire(w, TunnelConn(cur[w], "d", hs[w].nonce,
                                           secret[EpOf(w)], FALSE),
                             [streams EXCEPT ![cur[w]] = s])
       \/ /\ ReadEof(CurStream(w), "d", 1)
          /\ Fail(w, Error("UnexpectedEof", "none"),
                  [streams EXCEPT ![cur[w]] = SClose(@, "d")])
       \/ /\ ReadReset(CurStream(w), "d", 1)
          /\ Fail(w, Error("IoOther", "none"),
                  [streams EXCEPT ![cur[w]] = SClose(@, "d")])
    /\ UNCHANGED <<route, secret, ban_list, lock, backlog, tasks, refused, rng, aborted, cx>>

(***************************************************************************)
(* The relay: Tunnel::run, Tunnel::join and the direct/direct arm of       *)
(* start_connection (connection.rs 201-225), with Tunnel::read_write.      *)
(***************************************************************************)
End(conn) == [stream |-> conn.stream, side |-> conn.side]

Task(src, dst, ciphers) ==
    [st |-> "run", src |-> End(src), dst |-> End(dst), ciphers |-> ciphers]

\* a cipher made with the nonce alone
ConnCipherNoKey(conn) == NewCipher(0, conn.nonce)

\* tunnel.rs 140-141: ChaCha20::new(&self.secret.into(), &self.nonce.into())
ConnCipher(conn) == NewCipher(conn.secret, conn.nonce)

\* a join whose two directions use the ciphers of their source alone
RelayTasksSourceOnly(a, b) ==
    CASE a.variant = "Direct" /\ b.variant = "Direct" ->
            [t1 |-> Task(a, b, <<>>), t2 |-> Task(b, a, <<>>)]
      [] a.variant = "Tunnel" /\ b.variant = "Tunnel" ->
            [t1 |-> Task(a, b, <<ConnCipher(a), ConnCipher(a)>>),
             t2 |-> Task(b, a, <<ConnCipher(b), ConnCipher(b)>>)]
      [] a.variant = "Tunnel" /\ b.variant = "Direct" ->
            [t1 |-> Task(a, b, <<ConnCipher(a)>>),
             t2 |-> Task(b, a, <<ConnCipher(a)>>)]
      [] a.variant = "Direct" /\ b.variant = "Tunnel" ->
            [t1 |-> Task(b, a, <<ConnCipher(b)>>),
             t2 |-> Task(a, b, <<ConnCipher(b)>>)]

\* a Direct/Tunnel pair that is relayed like two direct connections
RelayTasksDirectPlain(a, b) ==
    CASE a.variant = "Direct" /\ b.variant = "Direct" ->
            [t1 |-> Task(a, b, <<>>), t2 |-> Task(b, a, <<>>)]
      [] a.variant = "Tunnel" /\ b.variant = "Tunnel" ->
            [t1 |-> Task(a, b, <<ConnCipher(a), ConnCipher(b)>>),
             t2 |-> Task(b, a, <<ConnCipher(b), ConnCipher(a)>>)]
      [] a.variant = "Tunnel" /\ b.variant = "Direct" ->
            [t1 |-> Task(a, b, <<ConnCipher(a)>>),
             t2 |-> Task(b, a, <<ConnCipher(a)>>)]
      [] a.variant = "Direct" /\ b.variant = "Tunnel" ->
            [t1 |-> Task(b, a, <<>>),
             t2 |-> Task(a, b, <<>>)]

\* the two copy tasks spawned for the pair (ts_a, ts_b)
RelayTasks(a, b) ==
    CASE a.variant = "Direct" /\ b.variant = "Direct" ->
            [t1 |-> Task(a, b, <<>>), t2 |-> Task(b, a, <<>>)]
      [] a.variant = "Tunnel" /\ b.variant = "Tunnel" ->
            [t1 |-> Task(a, b, <<ConnCipher(a), ConnCipher(b)>>),
             t2 |-> Task(b, a, <<ConnCipher(b), ConnCipher(a)>>)]
      [] a.variant = "Tunnel" /\ b.variant = "Direct" ->
            [t1 |-> Task(a, b, <<ConnCipher(a)>>),
             t2 |-> Task(b, a, <<ConnCipher(a)>>)]
      [] a.variant = "Direct" /\ b.variant = "Tunnel" ->
            [t1 |-> Task(b, a, <<ConnCipher(b)>>),
             t2 |-> Task(a, b, <<ConnCipher(b)>>)]

\* a starting byte written by every tunnel, outbound ones too
SendsStartAll(conn) == conn.variant = "Tunnel"

\* tunnel.rs 97-102, 134-136: does this Connection write the starting byte
SendsStart(conn) == conn.variant = "Tunnel" /\ conn.is_inbound

\* the stream map after the starting bytes of (a, b) are written
RECURSIVE WriteStarts(_, _)
WriteStarts(ss, conns) ==
    IF conns = <<>> THEN ss
    ELSE LET x == Head(conns)
         IN WriteStarts(
               IF SendsStart(x)
               THEN [ss EXCEPT ![x.stream] = SWrite(@, x.side, <<START_OK>>)]
               ELSE ss,
               Tail(conns))

\* a starting byte cannot be written: the connection was reset
StartFails(ss, conns) ==
    \E i \in 1..Len(conns) : SendsStart(conns[i]) /\ ss[conns[i].stream].rst[conns[i].side]

\* the order in which join / run write the starting bytes: self, then other
StartOrder(a, b) ==
    IF a.variant = "Direct" /\ b.variant = "Tunnel" THEN <<b>> ELSE <<a, b>>

\* connection.rs 222-224: the relay returned Err(e): "Route failed"
RouteFailed == [kind |-> "IoOther", ip |-> "none", stage |-> "R"]

\* a worker that returns once its relay is over
LoopReturn(w) ==
    /\ held' = [held EXCEPT ![w] = [A |-> NoConn, B |-> NoConn]]
    /\ tasks' = [tasks EXCEPT ![w] = NoTasks]
    /\ pc' = [pc EXCEPT ![w] = "off"]
    /\ stage' = [stage EXCEPT ![w] = "A"]

\* the worker is back at the top of the loop with nothing held
LoopAgain(w) ==
    /\ held' = [held EXCEPT ![w] = [A |-> NoConn, B |-> NoConn]]
    /\ tasks' = [tasks EXCEPT ![w] = NoTasks]
    /\ pc' = [pc EXCEPT ![w] = "connect"]
    /\ stage' = [stage EXCEPT ![w] = "A"]

\* connection.rs 201-220 up to the spawning of the copy tasks: the starting
\* bytes are written, the ciphers made, the tasks spawned.  A failed write
\* returns Err: the route failed, both connections are dropped.
RelayStart(w) ==
    /\ pc[w] = "relay"
    /\ LET a == held[w].A
           b == held[w].B
       IN IF StartFails(streams, StartOrder(a, b))
          THEN /\ streams' = DropConn(DropConn(streams, a), b)
               /\ err' = [err EXCEPT ![w] = RouteFailed]
               /\ LoopAgain(w)
          ELSE /\ streams' = WriteStarts(streams, StartOrder(a, b))
               /\ tasks' = [tasks EXCEPT ![w] = RelayTasks(a, b)]
               /\ pc' = [pc EXCEPT ![w] = "relaying"]
               /\ UNCHANGED <<held, stage, err>>
    /\ UNCHANGED <<route, secret, ban_list, lock, backlog, cur, hs,
                   timer, refused, rng, aborted, cx>>

Min(a, b) == IF a < b THEN a ELSE b

TaskNames == {"t1", "t2"}
Sibling(t) == IF t = "t1" THEN "t2" ELSE "t1"

\* the sockets at the two ends of a copy task are closed: each task owns
\* the read half of one socket and the write half of the other, and a
\* socket closes when both of its halves are dropped
CloseEnds(ss, k) ==
    LET s1 == [ss EXCEPT ![k.src.stream] = SClose(@, k.src.side)]
    IN [s1 EXCEPT ![k.dst.stream] = SClose(@, k.dst.side)]

\* copy task t of worker w returns and drops its two halves; if its sibling
\* has returned already these were the last halves of both sockets
Finished(w, t, ss) ==
    IF tasks[w][Sibling(t)].st \in {"ok", "err"}
    THEN CloseEnds(ss, tasks[w][t])
    ELSE ss

\* tunnel.rs 190-203: one turn of the loop: a read of n > 0 bytes, the
\* keystreams applied, write_all; write_all fails on a reset connection
CopyStep(w, t) ==
    /\ pc[w] = "relaying"
    /\ tasks[w][t].st = "run"
    /\ LET k == tasks[w][t]
           av == Avail(streams[k.src.stream], k.src.side)
       IN /\ av # <<>>
          /\ \E n \in 1..Min(Len(av), BUFFER_LEN) :
                LET ss == [streams EXCEPT ![k.src.stream] = SRead(@, k.src.side, n)]
                    buf == ApplyAll(k.ciphers, SubSeq(av, 1, n))
                IN IF ss[k.dst.stream].rst[k.dst.side]
                   THEN /\ streams' = Finished(w, t, ss)
                        /\ tasks' = [tasks EXCEPT ![w][t].st = "err"]
                   ELSE /\ streams' = [ss EXCEPT ![k.dst.stream] = SWrite(@, k.dst.side, buf)]
                        /\ tasks' = [tasks EXCEPT ![w][t].ciphers = AdvanceAll(k.ciphers, n)]
    /\ UNCHANGED <<route, secret, ban_list, lock, backlog, pc, stage, cur,
                   hs, held, err, timer, refused, rng, aborted, cx>>

\* a failed read that is taken for the end of the stream
CopyEndSwallow(w, t) ==
    /\ pc[w] = "relaying"
    /\ tasks[w][t].st = "run"
    /\ LET k == tasks[w][t]
           s == streams[k.src.stream]
       IN /\ ReadEof(s, k.src.side, 1) \/ ReadReset(s, k.src.side, 1)
          /\ IF streams[k.dst.stream].rst[k.dst.side]
             THEN /\ tasks' = [tasks EXCEPT ![w][t].st = "err"]
                  /\ streams' = Finished(w, t, streams)
             ELSE /\ streams' = Finished(w, t,
                                    [streams EXCEPT ![k.dst.stream] =
                                        SShutdown(@, k.dst.side)])
                  /\ tasks' = [tasks EXCEPT ![w][t].st = "ok"]
    /\ UNCHANGED <<route, secret, ban_list, lock, backlog, pc, stage, cur,
                   hs, held, err, timer, refused, rng, aborted, cx>>

\* tunnel.rs 190-195: read returned 0 (the destination's write side is shut
\* down, Ok) or failed (the error ends the task)
CopyEnd(w, t) ==
    /\ pc[w] = "relaying"
    /\ tasks[w][t].st = "run"
    /\ LET k == tasks[w][t]
           s == streams[k.src.stream]
       IN \/ /\ ReadEof(s, k.src.side, 1)
             /\ IF streams[k.dst.stream].rst[k.dst.side]
                THEN /\ tasks' = [tasks EXCEPT ![w][t].st = "err"]
                     /\ streams' = Finished(w, t, streams)
                ELSE /\ streams' = Finished(w, t,
                                       [streams EXCEPT ![k.dst.stream] =
                                           SShutdown(@, k.dst.side)])
                     /\ tasks' = [tasks EXCEPT ![w][t].st = "ok"]
          \/ /\ ReadReset(s, k.src.side, 1)
             /\ tasks' = [tasks EXCEPT ![w][t].st = "err"]
             /\ streams' = Finished(w, t, streams)
    /\ UNCHANGED <<route, secret, ban_list, lock, backlog, pc, stage, cur,
                   hs, held, err, timer, refused, rng, aborted, cx>>

\* tunnel.rs 157-162: what run / join / proxy return when the task that
\* select! saw finish ended with status st: the JoinHandle's output is
\* bound to _ and Ok(()) is returned
RelayResult(st) == NoError

\* a select! whose branches leave the other task running, detached
RelayEndDetach(w) ==
    /\ pc[w] = "relaying"
    /\ \E t \in TaskNames :
          /\ tasks[w][t].st \in {"ok", "err"}
          /\ err' = [err EXCEPT ![w] = RelayResult(tasks[w][t].st)]
    /\ LoopAgain(w)
    /\ UNCHANGED <<route, secret, ban_list, lock, backlog, streams, cur, hs,
                   timer, refused, rng, aborted, cx>>

\* tokio::select!: the branch of a finished task runs and aborts the
\* sibling; the relay returns and the worker loops.  A sibling that was
\* still running keeps its two halves until it is cancelled.
RelayEnd(w) ==
    /\ pc[w] = "relaying"
    /\ \E t \in TaskNames :
          /\ tasks[w][t].st \in {"ok", "err"}
          /\ err' = [err EXCEPT ![w] = RelayResult(tasks[w][t].st)]
          /\ aborted' = IF tasks[w][Sibling(t)].st = "run"
                        THEN aborted \cup { [src |-> tasks[w][Sibling(t)].src,
                                             dst |-> tasks[w][Sibling(t)].dst] }
                        ELSE aborted
    /\ LoopAgain(w)
    /\ UNCHANGED <<route, secret, ban_list, lock, backlog, streams, cur, hs,
                   timer, refused, rng, cx>>

\* the runtime cancels an aborted task: its future is dropped and with it
\* the last halves of both sockets
TaskCancel(z) ==
    /\ z \in aborted
    /\ aborted' = aborted \ {z}
    /\ streams' = CloseEnds(streams, z)
    /\ UNCHANGED <<route, secret, ban_list, lock, backlog, pc, stage, cur,
                   hs, held, err, timer, tasks, refused, rng, cx>>

(***************************************************************************)
(* The environment: the targets of the direct endpoints, and time.         *)
(***************************************************************************)
\* the i-th byte a target of process p's direct endpoint writes
PayloadByte(p, i) == (IF p = "R" THEN 103 + i ELSE 153 + 3 * i) % 256

\* a target writes its next payload byte
EnvSend(c) ==
    /\ streams[c].ep = "env"
    /\ ~streams[c].gone["d"]
    /\ ~streams[c].fin["l"]
    /\ ~streams[c].rst["l"]
    /\ Len(streams[c].out["l"]) < MaxPayload
    /\ streams' = [streams EXCEPT ![c] =
                      SWrite(@, "l", <<PayloadByte(@.dproc, Len(@.out["l"]) + 1)>>)]
    /\ UNCHANGED <<route, secret, ban_list, lock, backlog, pc, stage, cur,
                   hs, held, err, timer, tasks, refused, rng, aborted, cx>>

\* a target shuts down its write side and keeps reading
EnvShutdown(c) ==
    /\ streams[c].ep = "env"
    /\ ~streams[c].gone["d"]
    /\ ~streams[c].gone["l"]
    /\ ~streams[c].fin["l"]
    /\ streams' = [streams EXCEPT ![c] = SShutdown(@, "l")]
    /\ UNCHANGED <<route, secret, ban_list, lock, backlog, pc, stage, cur,
                   hs, held, err, timer, tasks, refused, rng, aborted, cx>>

\* a target closes its socket
EnvClose(c) ==
    /\ streams[c].ep = "env"
    /\ ~streams[c].gone["d"]
    /\ ~streams[c].gone["l"]
    /\ streams' = [streams EXCEPT ![c] = SClose(@, "l")]
    /\ UNCHANGED <<route, secret, ban_list, lock, backlog, pc, stage, cur,
                   hs, held, err, timer, tasks, refused, rng, aborted, cx>>

\* the instants at which a timed wait of the program ends
ShortDeadlines ==
    { timer[w].until : w \in { x \in Workers : pc[x] = "sleep" } }
    \cup { hs[w].deadline : w \in { x \in Workers : pc[x] \in {"ib_auth", "ob_nonce"} } }
BanExpiries ==
    UNION { { ban_list[h][ip] : ip \in DOMAIN ban_list[h] } : h \in BanLists }

\* an instant after d seconds have passed
Later(t, d) == IF t - d > Now THEN t - d ELSE Now

\* Time passes: the clock moves to an instant at which a wait of the
\* program ends (a sleep, a handshake timeout, a ban).
Tick ==
    /\ \E t \in ShortDeadlines \cup BanExpiries :
          /\ t > Now
          /\ LET d == t - Now
             IN /\ timer' = [w \in Workers |-> [until |-> Later(timer[w].until, d)]]
                /\ hs' = [w \in Workers |-> [hs[w] EXCEPT !.deadline = Later(@, d)]]
                /\ ban_list' = [h \in BanLists |->
                                   [ip \in DOMAIN ban_list[h] |-> Later(ban_list[h][ip], d)]]
    /\ UNCHANGED <<route, secret, lock, backlog, streams, pc, stage, cur,
                   held, err, tasks, refused, rng, aborted, cx>>

Next ==
    \/ \E w \in Workers : ListenerLock(w)
    \/ \E w \in Workers : Accept(w)
    \/ \E w \in Workers : BanCheckReject(w)
    \/ \E w \in Workers : BanCheckPass(w)
    \/ \E w \in Workers : InitSendNonce(w)
    \/ \E w \in Workers : InitAuthOk(w)
    \/ \E w \in Workers : InitAuthMismatch(w)
    \/ \E w \in Workers : InitAuthTimeout(w)
    \/ \E w \in Workers : InitAuthIoErr(w)
    \/ \E w \in Workers : DialTunnel(w)
    \/ \E w \in Workers : DialDirect(w)
    \/ \E w \in Workers : InitRecvNonce(w)
    \/ \E w \in Workers : InitNonceIoErr(w)
    \/ \E w \in Workers : InitNonceTimeout(w)
    \/ \E w \in Workers : InitSendAuth(w)
    \/ \E w \in Workers : InitRecvStart(w)
    \/ \E w \in Workers : Wake(w)
    \/ \E w \in Workers : BanInsert(w)
    \/ \E w \in Workers : RelayStart(w)
    \/ \E w \in Workers, t \in TaskNames : CopyStep(w, t)
    \/ \E w \in Workers, t \in TaskNames : CopyEnd(w, t)
    \/ \E w \in Workers : RelayEnd(w)
    \/ \E c \in DOMAIN streams : EnvSend(c)
    \/ \E z \in aborted : TaskCancel(z)
    \/ \E c \in DOMAIN streams : EnvShutdown(c)
    \/ \E c \in DOMAIN streams : EnvClose(c)
    \/ Tick

Spec == Init /\ [][Next]_vars

SpecPool == InitPool /\ [][Next]_vars

\* one worker in each process; the relay's route in either order, the
\* connector's tunnel endpoint first
RelayRoutes(p) == IF p = "R" THEN RoutesOf(p) ELSE TunnelFirst(p)

InitRelay == InitWith({"r1", "c1"}, RelayRoutes, Keys, {0}, {NoCx})

SpecRelay == InitRelay /\ [][Next]_vars

\* The scheduling of the runtime: a worker whose select! has a finished
\* task, whose sleep is over or that waits for the ban-list mutex is
\* polled; an aborted task is cancelled; time passes.
Fairness ==
    /\ \A w \in Workers :
          /\ WF_vars(RelayEnd(w))
          /\ WF_vars(Wake(w))
          /\ WF_vars(BanInsert(w))
    /\ WF_vars(\E z \in aborted : TaskCancel(z))
    /\ WF_vars(Tick)

\* one worker in each process, the tunnel endpoint first
InitLive == InitWith({"r1", "c1"}, TunnelFirst, Keys, {0}, {NoCx})

SpecLive == InitLive /\ [][Next]_vars /\ Fairness

\* The runtime polls a worker that waits in the handshake whenever its
\* read or its timeout is ready.
HandshakeFairness ==
    \A w \in Workers :
        WF_vars(\/ InitAuthOk(w) \/ InitAuthMismatch(w)
                \/ InitAuthTimeout(w) \/ InitAuthIoErr(w)
                \/ InitRecvNonce(w) \/ InitNonceIoErr(w) \/ InitNonceTimeout(w))

SpecTimed == InitLive /\ [][Next]_vars /\ Fairness /\ HandshakeFairness

\* A peer that is not this program: a TCP client at the connector's
\* address connects to the listener (connection.rs 78 accepts whoever
\* connects), reads what has arrived, writes up to AUTH_LEN bytes of its
\* own choice, or closes its socket (with unread data: a reset).
Peer ==
    /\ \/ /\ Len(streams) < MaxConns
          /\ streams' = Append(streams, NewStream("RT", "peer"))
          /\ backlog' = [backlog EXCEPT !["RT"] = Append(@, Len(streams) + 1)]
       \/ /\ \E c \in DOMAIN streams :
                /\ streams[c].dproc = "peer"
                /\ ~streams[c].gone["d"]
                /\ \/ /\ Avail(streams[c], "d") # <<>>
                      /\ streams' = [streams EXCEPT ![c] =
                                        SRead(@, "d", Len(Avail(@, "d")))]
                   \/ /\ Len(streams[c].out["d"]) < AUTH_LEN
                      /\ streams' = [streams EXCEPT ![c] = SWrite(@, "d", <<0>>)]
                   \/ streams' = [streams EXCEPT ![c] = SClose(@, "d")]
          /\ UNCHANGED backlog
    /\ UNCHANGED <<route, secret, ban_list, lock, pc, stage, cur, hs, held,
                   err, timer, tasks, refused, rng, aborted, cx>>

SpecPeer == InitLive /\ [][Next \/ Peer]_vars

(***************************************************************************)
(* The ciphers on their own: a plaintext is put through the cipher lists   *)
(* of the copy tasks it would cross, each task taking it in reads of any   *)
(* length.  No worker runs.                                                *)
(***************************************************************************)
PlainBytes == {0, 255}
Plaintexts == UNION { [1..n -> PlainBytes] : n \in 0..MaxPlain }
CipherNonces == { GenerateNonce(seed, k) : seed \in Seeds, k \in 1..2 }

\* the two ends of tunnel connection c, and the connection to a target
InboundEnd(c, key, nonce) == TunnelConn(c, "l", nonce, key, TRUE)
OutboundEnd(c, key, nonce) == TunnelConn(c, "d", nonce, key, FALSE)
TargetConn == DirectConn(MaxConns, "d")

\* the cipher list of the copy task among tk that reads from Connection src
CiphersFrom(tk, src) ==
    tk[CHOOSE t \in TaskNames : tk[t].src = End(src)].ciphers

\* a plaintext at the head of the copy tasks with cipher lists `stages`
Pipe(kind, from, to, plain, stages) ==
    [kind |-> kind, from |-> from, to |-> to, plain |-> plain,
     stages |-> stages,
     rd |-> [j \in DOMAIN stages |-> 0],
     outs |-> [j \in DOMAIN stages |-> <<>>],
     cuts |-> [j \in DOMAIN stages |-> <<>>]]

\* run at both ends of one tunnel: the outbound end encrypts what its
\* target wrote, the inbound end decrypts it for its own target
PairPipe(key, nonce, plain) ==
    Pipe("pair", OutboundEnd(1, key, nonce), InboundEnd(1, key, nonce), plain,
         << CiphersFrom(RelayTasks(OutboundEnd(1, key, nonce), TargetConn),
                        TargetConn),
            CiphersFrom(RelayTasks(InboundEnd(1, key, nonce), TargetConn),
                        InboundEnd(1, key, nonce)) >>)

\* join of the inbound ends a and b: the peer of the source tunnel
\* encrypts, the join re-encrypts, the peer of the other tunnel decrypts
JoinPipe(a, b, from, plain) ==
    LET to == IF from = a THEN b ELSE a
        fromPeer == OutboundEnd(from.stream, from.secret, from.nonce)
        toPeer == OutboundEnd(to.stream, to.secret, to.nonce)
    IN Pipe("join", from, to, plain,
            << CiphersFrom(RelayTasks(fromPeer, TargetConn), TargetConn),
               CiphersFrom(RelayTasks(a, b), from),
               CiphersFrom(RelayTasks(toPeer, TargetConn), toPeer) >>)

JoinPipes ==
    { JoinPipe(InboundEnd(1, ka, GenerateNonce(0, 1)), InboundEnd(2, kb, nb),
               IF ab THEN InboundEnd(1, ka, GenerateNonce(0, 1))
               ELSE InboundEnd(2, kb, nb), p) :
        ka \in Keys, kb \in Keys, nb \in {GenerateNonce(0, 1), GenerateNonce(0, 2)},
        ab \in BOOLEAN, p \in Plaintexts }

PairPipes == { PairPipe(k, n, p) : k \in Keys, n \in CipherNonces, p \in Plaintexts }

InitCipher == InitWith({}, TunnelFirst, {KeyS}, {0}, PairPipes \cup JoinPipes)

\* what copy task j of the pipeline reads from
PipeInput(j) == IF j = 1 THEN cx.plain ELSE cx.outs[j - 1]

\* tunnel.rs 190-203: one turn of the loop of copy task j: a read of n > 0
\* bytes, the keystreams of its ciphers applied in order, write_all
PipeStep(j) ==
    /\ cx.kind # "none"
    /\ j \in DOMAIN cx.stages
    /\ \E n \in 1..Min(Len(PipeInput(j)) - cx.rd[j], BUFFER_LEN) :
          cx' = [cx EXCEPT
                    !.rd[j] = @ + n,
                    !.outs[j] = @ \o ApplyAll(cx.stages[j],
                                     SubSeq(PipeInput(j), cx.rd[j] + 1, cx.rd[j] + n)),
                    !.stages[j] = AdvanceAll(@, n),
                    !.cuts[j] = Append(@, n)]
    /\ UNCHANGED <<route, secret, ban_list, lock, backlog, streams, pc, stage,
                   cur, hs, held, err, timer, tasks, refused, rng, aborted>>

NextCipher == \E j \in 1..3 : PipeStep(j)

SpecCipher == InitCipher /\ [][NextCipher]_vars

(***************************************************************************)
(* read_write of the library (lib.rs 9-21), of the relay binary            *)
(* (relay/src/connection.rs 116-128) and of the connector binary           *)
(* (connector/src/connection.rs 156-168): one cipher, a buffer of 512      *)
(* bytes.  No worker runs.                                                 *)
(***************************************************************************)
LIB_BUFFER_LEN == 512

\* a plaintext at the head of one read_write task with its cipher
LibPipe(key, nonce, plain) ==
    Pipe("lib", TargetConn, OutboundEnd(1, key, nonce), plain,
         << <<NewCipher(key, nonce)>> >>)

LibPipes == { LibPipe(k, n, p) : k \in Keys, n \in CipherNonces, p \in Plaintexts }

InitLib == InitWith({}, TunnelFirst, {KeyS}, {0}, LibPipes)

\* one turn of the loop: read(&mut buffer) returns n > 0 bytes,
\* cipher.apply_keystream(&mut buffer) goes over the whole buffer,
\* write_all(&buffer[..n])
LibReadWrite ==
    /\ cx.kind = "lib"
    /\ \E n \in 1..Min(Len(cx.plain) - cx.rd[1], LIB_BUFFER_LEN) :
          cx' = [cx EXCEPT
                    !.rd[1] = @ + n,
                    !.outs[1] = @ \o KeystreamOut(cx.stages[1][1],
                                        SubSeq(cx.plain, cx.rd[1] + 1, cx.rd[1] + n)),
                    !.stages[1] = AdvanceAll(@, LIB_BUFFER_LEN),
                    !.cuts[1] = Append(@, n)]
    /\ UNCHANGED <<route, secret, ban_list, lock, backlog, streams, pc, stage,
                   cur, hs, held, err, timer, tasks, refused, rng, aborted>>

NextLib == LibReadWrite

SpecLib == InitLib /\ [][NextLib]_vars

(***************************************************************************)
(* The locks of connect and start_connection (connection.rs 73-92,         *)
(* 117-199) on their own: two workers of one process whose routes name the *)
(* same two inbound tunnel endpoints in opposite order, the mutex of each  *)
(* listener and the mutex of the ban list.  A worker is at one of the      *)
(* awaits of the loop; connections arrive from outside.                    *)
(***************************************************************************)
InitLocks ==
    InitWith({}, TunnelFirst, {KeyS}, {0},
             { [kind |-> "locks",
                at |-> [w \in {"r1", "r2"} |-> "lock"],
                st |-> [w \in {"r1", "r2"} |-> 1],
                listener |-> [l \in {"in1", "in2"} |-> "free"],
                ban |-> "free",
                queue |-> [l \in {"in1", "in2"} |-> 0],
                arrived |-> 0] })

\* the endpoint worker w is acquiring: r1's route is (in1, in2), r2's is
\* (in2, in1)
LockEp(w) ==
    (IF w = "r1" THEN <<"in1", "in2">> ELSE <<"in2", "in1">>)[cx.st[w]]

\* nothing but the locks and the positions of the two workers changes
LockFrame ==
    UNCHANGED <<route, secret, ban_list, lock, backlog, streams, pc, stage,
                cur, hs, held, err, timer, tasks, refused, rng, aborted>>

\* a peer connects to listener l
Arrive(l) ==
    /\ cx.arrived < MaxConns
    /\ cx' = [cx EXCEPT !.queue[l] = @ + 1, !.arrived = @ + 1]
    /\ LockFrame

\* connection.rs 77: listener_lock.lock().await
LockListener(w) ==
    /\ cx.at[w] = "lock"
    /\ cx.listener[LockEp(w)] = "free"
    /\ cx' = [cx EXCEPT !.listener[LockEp(w)] = w, !.at[w] = "accept"]
    /\ LockFrame

\* an accept after which the guard of the listener is kept
AcceptConnKeep(w) ==
    /\ cx.at[w] = "accept"
    /\ cx.queue[LockEp(w)] > 0
    /\ cx' = [cx EXCEPT !.queue[LockEp(w)] = @ - 1, !.at[w] = "banlock"]
    /\ LockFrame

\* connection.rs 78-79: listener.accept().await?; drop(listener)
AcceptConn(w) ==
    /\ cx.at[w] = "accept"
    /\ cx.queue[LockEp(w)] > 0
    /\ cx' = [cx EXCEPT !.queue[LockEp(w)] = @ - 1,
                        !.listener[LockEp(w)] = "free",
                        !.at[w] = "banlock"]
    /\ LockFrame

\* connection.rs 82: ban_list.lock().await of the lookup
LockBanLookup(w) ==
    /\ cx.at[w] = "banlock"
    /\ cx.ban = "free"
    /\ cx' = [cx EXCEPT !.ban = w, !.at[w] = "lookup"]
    /\ LockFrame

\* connection.rs 82-87: get(&addr.ip()) and the comparison; the guard is
\* gone when the `if let` is left, by the return of
\* ConnAttemptFromBannedIP (continue: back to endpoint A) or towards
\* Tunnel::init
BanLookup(w) ==
    /\ cx.at[w] = "lookup"
    /\ \/ cx' = [cx EXCEPT !.ban = "free", !.at[w] = "lock", !.st[w] = 1]
       \/ cx' = [cx EXCEPT !.ban = "free", !.at[w] = "init"]
    /\ LockFrame

\* connection.rs 89: Tunnel::init(stream, true, secret).await returns Ok
\* (stage A goes on to stage B, stage B to the relay), SecretMismatch or
\* Timeout (the ban insert) or another error (continue)
InitResult(w) ==
    /\ cx.at[w] = "init"
    /\ \/ cx' = IF cx.st[w] = 1
                THEN [cx EXCEPT !.at[w] = "lock", !.st[w] = 2]
                ELSE [cx EXCEPT !.at[w] = "relay"]
       \/ cx' = [cx EXCEPT !.at[w] = "banwait"]
       \/ cx' = [cx EXCEPT !.at[w] = "lock", !.st[w] = 1]
    /\ LockFrame

\* connection.rs 147-150 / 186-189: ban_list.lock().await of the insert
LockBanInsert(w) ==
    /\ cx.at[w] = "banwait"
    /\ cx.ban = "free"
    /\ cx' = [cx EXCEPT !.ban = w, !.at[w] = "insert"]
    /\ LockFrame

\* insert(addr, Instant::now() + BAN_LENGTH); the guard is a temporary of
\* the statement; continue
BanInserted(w) ==
    /\ cx.at[w] = "insert"
    /\ cx' = [cx EXCEPT !.ban = "free", !.at[w] = "lock", !.st[w] = 1]
    /\ LockFrame

\* connection.rs 201-225: the relay of (ts_a, ts_b) returns
RelayOver(w) ==
    /\ cx.at[w] = "relay"
    /\ cx' = [cx EXCEPT !.at[w] = "lock", !.st[w] = 1]
    /\ LockFrame

NextLocks ==
    \/ \E l \in {"in1", "in2"} : Arrive(l)
    \/ \E w \in {"r1", "r2"} : LockListener(w)
    \/ \E w \in {"r1", "r2"} : AcceptConn(w)
    \/ \E w \in {"r1", "r2"} : LockBanLookup(w)
    \/ \E w \in {"r1", "r2"} : BanLookup(w)
    \/ \E w \in {"r1", "r2"} : InitResult(w)
    \/ \E w \in {"r1", "r2"} : LockBanInsert(w)
    \/ \E w \in {"r1", "r2"} : BanInserted(w)
    \/ \E w \in {"r1", "r2"} : RelayOver(w)

SpecLocks == InitLocks /\ [][NextLocks]_vars

(***************************************************************************)
(* The four shapes of the relay (connection.rs 201-220): a plaintext from  *)
(* the far end of ts_a or ts_b goes through the relay of (ts_a, ts_b); the *)
(* far end of a Tunnel is the relay of its peer, which holds the other end *)
(* with the same (secret, nonce).                                          *)
(***************************************************************************)
\* the values ts_a and ts_b can have
ConnsA ==
    {DirectConn(1, "l")}
    \cup { TunnelConn(1, s, GenerateNonce(0, 1), k, s = "l") :
              s \in {"d", "l"}, k \in Keys }
ConnsB ==
    {DirectConn(2, "d")}
    \cup { TunnelConn(2, s, GenerateNonce(0, 2), k, s = "l") :
              s \in {"d", "l"}, k \in Keys }

\* the other end of Tunnel x
PeerEnd(x) == TunnelConn(x.stream, Other(x.side), x.nonce, x.secret, ~x.is_inbound)

\* the copy tasks a plaintext passes from the far end of `from` to the far
\* end of the other connection of the pair (a, b)
ShapeStages(a, b, from) ==
    LET to == IF from = a THEN b ELSE a
    IN (IF from.variant = "Tunnel"
        THEN << CiphersFrom(RelayTasks(PeerEnd(from), TargetConn), TargetConn) >>
        ELSE <<>>)
       \o << CiphersFrom(RelayTasks(a, b), from) >>
       \o (IF to.variant = "Tunnel"
           THEN << CiphersFrom(RelayTasks(PeerEnd(to), TargetConn), PeerEnd(to)) >>
           ELSE <<>>)

\* kind "ab": from is ts_a and to is ts_b; kind "ba": from is ts_b
ShapePipes ==
    { Pipe("ab", a, b, p, ShapeStages(a, b, a)) :
         a \in ConnsA, b \in ConnsB, p \in Plaintexts }
    \cup { Pipe("ba", b, a, p, ShapeStages(a, b, b)) :
         a \in ConnsA, b \in ConnsB, p \in Plaintexts }

InitShape == InitWith({}, TunnelFirst, {KeyS}, {0}, ShapePipes)

SpecShape == InitShape /\ [][NextCipher]_vars

(***************************************************************************)
(* The bindings of the endpoints: get_connection_data (connection.rs       *)
(* 44-63) called for every endpoint name of the routes by build_conn_map   *)
(* (main.rs 20-41).  The state is in cx.                                   *)
(***************************************************************************)
MaxEndpoints == 2

\* Option::None and Some(x) of Endpoint.secret and of secret_option
NoSecretOption == {}
Some(x) == {x}
SecretOf(endpoint) == CHOOSE s \in endpoint.secret : TRUE

\* the secret strings of the configuration file
SecretStrings == {"alpha", "beta"}

\* generate_secret_from_string: the digest of the string is the key
GenerateSecretFromString(s) ==
    IF s = "alpha" THEN KeyS ELSE CHOOSE k \in Keys : k # KeyS

\* config.rs 36-44: the fields of an Endpoint that get_connection_data reads
ConfigEndpoints ==
    [kind : {"Tunnel", "Direct"}, direction : {"Inbound", "Outbound"},
     secret : {Some(s) : s \in SecretStrings} \cup {NoSecretOption}]

NoData == [variant |-> "None", secret_option |-> NoSecretOption]

\* a tunnel endpoint without a secret gets a binding like a direct one
GetConnectionDataLax(endpoint, bind_ok) ==
    IF endpoint.direction = "Inbound" /\ ~bind_ok
    THEN [err |-> "IoOther", data |-> NoData, bound |-> FALSE]
    ELSE [err |-> "none",
          data |-> [variant |-> endpoint.direction,
                    secret_option |->
                       IF endpoint.kind = "Tunnel" /\ endpoint.secret # NoSecretOption
                       THEN Some(GenerateSecretFromString(SecretOf(endpoint)))
                       ELSE NoSecretOption],
          bound |-> endpoint.direction = "Inbound"]

\* connection.rs 44-63: the result of get_connection_data(endpoint);
\* bind_ok: TcpListener::bind(addr) succeeds.  The secret is looked at
\* before the listener is bound.
GetConnectionData(endpoint, bind_ok) ==
    IF endpoint.kind = "Tunnel" /\ endpoint.secret = NoSecretOption
    THEN [err |-> "NoSecret", data |-> NoData, bound |-> FALSE]
    ELSE LET secret_option ==
                 IF endpoint.kind = "Tunnel"
                 THEN Some(GenerateSecretFromString(SecretOf(endpoint)))
                 ELSE NoSecretOption
         IN IF endpoint.direction = "Outbound"
            THEN [err |-> "none",
                  data |-> [variant |-> "Outbound", secret_option |-> secret_option],
                  bound |-> FALSE]
            ELSE IF bind_ok
            THEN [err |-> "none",
                  data |-> [variant |-> "Inbound", secret_option |-> secret_option],
                  bound |-> TRUE]
            ELSE [err |-> "IoOther", data |-> NoData, bound |-> FALSE]

\* build_conn_map before the first call has returned
ConfigStart(endpoints) ==
    [kind |-> "config", endpoints |-> endpoints, todo |-> DOMAIN endpoints,
     map |-> [j \in DOMAIN endpoints |-> NoData], listeners |-> {},
     result |-> "pending"]

ConfigInputs ==
    { ConfigStart(e) :
        e \in UNION { [1..n -> ConfigEndpoints] : n \in 1..MaxEndpoints } }

InitConfig == InitWith({}, TunnelFirst, {KeyS}, {0}, ConfigInputs)

\* main.rs 30-40: the call for endpoint j returns.  try_join_all ends with
\* the first error and drops the bindings made so far, listeners included;
\* with every call returned the map is the result.
BuildStep(j) ==
    /\ cx.kind = "config"
    /\ cx.result = "pending"
    /\ j \in cx.todo
    /\ \E bind_ok \in BOOLEAN :
          LET r == GetConnectionData(cx.endpoints[j], bind_ok)
          IN IF r.err # "none"
             THEN cx' = [cx EXCEPT !.result = r.err,
                                   !.todo = {},
                                   !.map = [i \in DOMAIN cx.endpoints |-> NoData],
                                   !.listeners = {}]
             ELSE cx' = [cx EXCEPT !.map[j] = r.data,
                                   !.todo = @ \ {j},
                                   !.listeners = IF r.bound THEN @ \cup {j} ELSE @,
                                   !.result = IF cx.todo = {j} THEN "Ok" ELSE "pending"]
    /\ UNCHANGED <<route, secret, ban_list, lock, backlog, streams, pc, stage,
                   cur, hs, held, err, timer, tasks, refused, rng, aborted>>

NextConfig == \E j \in 1..MaxEndpoints : BuildStep(j)

SpecConfig == InitConfig /\ [][NextConfig]_vars

(***************************************************************************)
(* The starting byte (tunnel.rs 75-80) read from a peer that may send any  *)
(* byte.  The state is in cx.                                              *)
(***************************************************************************)
Bytes == 0..255

\* the outbound side has written AUTH; inbox is what the peer sends next
StartInput(inbox) ==
    [kind |-> "start", inbox |-> inbox, rd |-> 0, result |-> "pending"]

\* any byte, alone or followed by a second byte
StartInputs ==
    { StartInput(<<b>>) : b \in Bytes }
    \cup { StartInput(<<b, c>>) : b \in Bytes, c \in {START_OK, START_MISMATCH} }

InitStart == InitWith({}, TunnelFirst, {KeyS}, {0}, StartInputs)

\* tunnel.rs 76: read_u8 takes one byte, which decides
ReadStart ==
    /\ cx.kind = "start"
    /\ cx.result = "pending"
    /\ Len(cx.inbox) > cx.rd
    /\ cx' = [cx EXCEPT !.rd = @ + 1,
                        !.result = StartResult(cx.inbox[cx.rd + 1])]
    /\ UNCHANGED <<route, secret, ban_list, lock, backlog, streams, pc, stage,
                   cur, hs, held, err, timer, tasks, refused, rng, aborted>>

NextStart == ReadStart

SpecStart == InitStart /\ [][NextStart]_vars

(***************************************************************************)
(* Properties of the handshake.                                            *)
(***************************************************************************)
\* the Connection values worker w holds
HeldConns(w) == { x \in {held[w].A, held[w].B} : x.variant # "None" }

\* the tunnel Connection values worker w holds on stream c, side `side`
HeldTunnel(w, c, side) ==
    { x \in HeldConns(w) : x.variant = "Tunnel" /\ x.stream = c /\ x.side = side }

\* C1: on every tunnel connection the first bytes the inbound side writes
\* are the 12 bytes of the nonce and nothing else until the token is
\* verified; the outbound side writes nothing before it has read the 12
\* nonce bytes and then exactly the 4 bytes of the encrypted token; once the
\* token is accepted the 13th byte of the inbound side is the single byte
\* 0x01, written before any relayed payload byte.
HandshakeFraming ==
    \A c \in DOMAIN streams :
        LET s == streams[c]
        IN s.ep \in Listeners =>
            /\ s.out["l"] # <<>> => Len(s.out["l"]) >= NONCE_LEN
            /\ Len(s.out["l"]) > NONCE_LEN =>
                  s.out["l"][NONCE_LEN + 1] \in {START_OK, START_MISMATCH}
            /\ s.out["d"] # <<>> =>
                  /\ s.rd["d"] >= NONCE_LEN
                  /\ Len(s.out["d"]) >= AUTH_LEN
            /\ \A w \in Workers :
                  /\ (cur[w] = c /\ pc[w] \in {"bancheck", "ib_nonce"}) =>
                        s.out["l"] = <<>>
                  /\ (cur[w] = c /\ pc[w] = "ib_auth") =>
                        /\ Len(hs[w].nonce) = NONCE_LEN
                        /\ s.out["l"] = hs[w].nonce
                  /\ (cur[w] = c /\ pc[w] \in {"ob_nonce", "ob_auth"}) =>
                        s.out["d"] = <<>>
                  /\ (cur[w] = c /\ pc[w] = "ob_start") =>
                        Len(s.out["d"]) = AUTH_LEN
                  /\ \A x \in HeldTunnel(w, c, "d") :
                        pc[w] # "relaying" => Len(s.out["d"]) = AUTH_LEN
                  /\ \A x \in HeldTunnel(w, c, "l") :
                        /\ SubSeq(s.out["l"], 1, NONCE_LEN) = x.nonce
                        /\ pc[w] # "relaying" => Len(s.out["l"]) = NONCE_LEN
                        /\ pc[w] = "relaying" =>
                              /\ Len(s.out["l"]) > NONCE_LEN
                              /\ s.out["l"][NONCE_LEN + 1] = START_OK

\* both sides of one tunnel connection are relaying and the inbound side has
\* written a payload byte after the nonce and the starting byte
HandshakeFramingWitness ==
    \E c \in DOMAIN streams :
        /\ streams[c].ep \in Listeners
        /\ Len(streams[c].out["l"]) > NONCE_LEN + 1
        /\ Len(streams[c].out["d"]) >= AUTH_LEN
        /\ \E w \in Workers : pc[w] = "relaying" /\ HeldTunnel(w, c, "l") # {}
        /\ \E w \in Workers : pc[w] = "relaying" /\ HeldTunnel(w, c, "d") # {}

\* C2: with differing secrets, the inbound handshake that has read the token
\* writes the single byte 0x02 after the nonce and fails with
\* SecretMismatch(peer ip); the outbound handshake that reads the starting
\* byte fails with SecretRejected; and when the inbound worker has handled
\* the error its ban list holds the peer ip with the instant of the insert
\* plus BAN_LENGTH.
WrongSecret ==
    [][ secret["CT"] # secret["RT"] =>
          \A w \in Workers :
             /\ ( /\ pc[w] = "ib_auth"
                  /\ pc'[w] # "ib_auth"
                  /\ Len(streams[cur[w]].out["d"]) - streams[cur[w]].rd["l"] >= AUTH_LEN
                  /\ ~streams[cur[w]].rst["l"] ) =>
                   /\ streams'[cur[w]].out["l"] = hs[w].nonce \o <<START_MISMATCH>>
                   /\ err'[w].kind = "SecretMismatch"
                   /\ err'[w].ip = Ip(streams[cur[w]].dproc)
                   /\ pc'[w] = "ban"
                   /\ HeldConns(w)' = {}
             /\ ( /\ pc[w] = "ob_start"
                  /\ pc'[w] # "ob_start"
                  /\ Len(streams[cur[w]].out["l"]) > streams[cur[w]].rd["d"] ) =>
                   /\ err'[w].kind = "SecretRejected"
                   /\ HeldConns(w)' = {}
             /\ ( /\ pc[w] = "ban"
                  /\ pc'[w] # "ban"
                  /\ err[w].kind = "SecretMismatch" ) =>
                   /\ err[w].ip \in DOMAIN ban_list'[BanListOf(w)]
                   /\ ban_list'[BanListOf(w)][err[w].ip] = Now + BAN_LENGTH
      ]_vars

\* the peer with the wrong secret was told SecretRejected and the inbound
\* worker has banned its address
WrongSecretWitness ==
    /\ secret["CT"] # secret["RT"]
    /\ err["c1"].kind = "SecretRejected"
    /\ err["r1"].kind = "SecretMismatch"
    /\ pc["r1"] # "ban"
    /\ "ipC" \in DOMAIN ban_list[BanListOf("r1")]
    /\ ban_list[BanListOf("r1")]["ipC"] > Now

\* C3: with equal secrets the inbound side never writes 0x02 and no
\* handshake ends in SecretMismatch or SecretRejected; every Tunnel value
\* holds the nonce the inbound side generated for its connection, the 12
\* bytes first written on it, and so do the ciphers of its relay, as long
\* as the Tunnel lives.
SameSecret ==
    secret["CT"] = secret["RT"] =>
        /\ \A c \in DOMAIN streams :
              (streams[c].ep \in Listeners /\ Len(streams[c].out["l"]) > NONCE_LEN) =>
                  streams[c].out["l"][NONCE_LEN + 1] # START_MISMATCH
        /\ \A w \in Workers :
              /\ err[w].kind \notin {"SecretMismatch", "SecretRejected"}
              /\ \A x \in HeldConns(w) :
                    x.variant = "Tunnel" =>
                       /\ Len(x.nonce) = NONCE_LEN
                       /\ streams[x.stream].ep # "dead" =>
                             x.nonce = SubSeq(streams[x.stream].out["l"], 1, NONCE_LEN)
                       /\ \A v \in Workers : \A y \in HeldConns(v) :
                             (y.variant = "Tunnel" /\ y.stream = x.stream) =>
                                 y.nonce = x.nonce
                       /\ pc[w] = "relaying" =>
                             \A t \in TaskNames :
                                \A i \in 1..Len(tasks[w][t].ciphers) :
                                   tasks[w][t].ciphers[i].nonce = x.nonce

\* both ends of one connection hold a Tunnel and relay
SameSecretWitness ==
    /\ secret["CT"] = secret["RT"]
    /\ \E c \in DOMAIN streams : \E w \in Workers : \E v \in Workers :
          /\ HeldTunnel(w, c, "l") # {}
          /\ HeldTunnel(v, c, "d") # {}
          /\ pc[w] = "relaying"
          /\ pc[v] = "relaying"

\* C4: whenever the byte 0x01 appears as the starting byte of a tunnel
\* connection, the step that wrote it is the start of the relay of a worker
\* that holds both of its connections, one of them the inbound Tunnel of
\* that connection; Tunnel::init never writes it.
DeferredReadiness ==
    [][ \A c \in DOMAIN streams :
          ( /\ streams[c].ep \in Listeners
            /\ Len(streams[c].out["l"]) <= NONCE_LEN
            /\ Len(streams'[c].out["l"]) > NONCE_LEN
            /\ streams'[c].out["l"][NONCE_LEN + 1] = START_OK ) =>
              \E w \in Workers :
                 /\ pc[w] = "relay"
                 /\ pc'[w] = "relaying"
                 /\ held[w].A.variant # "None"
                 /\ held[w].B.variant # "None"
                 /\ \E x \in HeldTunnel(w, c, "l") : x.is_inbound
      ]_vars

\* a worker that acquired the inbound Tunnel first and its second
\* connection later has started the relay: 0x01 follows the nonce
DeferredReadinessWitness ==
    \E w \in Workers : \E c \in DOMAIN streams :
        /\ HeldTunnel(w, c, "l") = {held[w].A}
        /\ held[w].B.variant = "Direct"
        /\ pc[w] = "relaying"
        /\ Len(streams[c].out["l"]) > NONCE_LEN
        /\ streams[c].out["l"][NONCE_LEN + 1] = START_OK

\* the copy task of worker w that reads from / writes to Connection x
ReadTask(w, x) == CHOOSE k \in { tasks[w][t] : t \in TaskNames } : k.src = End(x)
WriteTask(w, x) == CHOOSE k \in { tasks[w][t] : t \in TaskNames } : k.dst = End(x)

\* C5: copy tasks exist only in a relay; what a relaying inbound Tunnel has
\* written is the nonce, 0x01 and the bytes of its outgoing copy task, and
\* what it has consumed is the 4 token bytes and the bytes of its incoming
\* copy task; a relaying outbound Tunnel has consumed exactly 12 + 1
\* handshake bytes before the bytes of its incoming copy task and written
\* the 4 token bytes before those of its outgoing one; so every byte a
\* target receives is the byte the other target sent at that position.
NoInterleaving ==
    /\ \A w \in Workers : pc[w] # "relaying" => tasks[w] = NoTasks
    /\ \A w \in Workers : pc[w] = "relaying" =>
          \A x \in HeldConns(w) :
           (x.variant = "Tunnel" /\ streams[x.stream].ep # "dead") =>
             LET s == streams[x.stream]
                 r == ReadTask(w, x)
                 o == WriteTask(w, x)
             IN IF x.is_inbound
                THEN /\ s.out["l"][NONCE_LEN + 1] = START_OK
                     /\ o.st # "err" =>
                           Len(s.out["l"]) = NONCE_LEN + 1 + o.ciphers[1].pos
                     /\ r.st # "err" => s.rd["l"] = AUTH_LEN + r.ciphers[1].pos
                ELSE /\ r.st # "err" =>
                           s.rd["d"] = NONCE_LEN + 1 + r.ciphers[1].pos
                     /\ o.st # "err" =>
                           Len(s.out["d"]) = AUTH_LEN + o.ciphers[1].pos
    /\ \A c \in DOMAIN streams :
          streams[c].ep = "env" =>
             \A i \in 1..Len(streams[c].out["d"]) :
                streams[c].out["d"][i] =
                    PayloadByte(IF streams[c].dproc = "R" THEN "C" ELSE "R", i)

\* the first payload byte of R's target has crossed the tunnel and reached
\* C's target
NoInterleavingWitness ==
    \E c \in DOMAIN streams :
        /\ streams[c].ep = "env"
        /\ streams[c].dproc = "C"
        /\ Len(streams[c].out["d"]) >= 1
        /\ streams[c].out["d"][1] = PayloadByte("R", 1)

(***************************************************************************)
(* Properties of the ban list and of the backoff.                          *)
(***************************************************************************)
\* worker w leaves the ban check of connect in this step
LeavesBanCheck(w) == pc[w] = "bancheck" /\ pc'[w] # "bancheck"

\* the map behind handle h holds ip with an instant still ahead
FutureEntry(h, ip) == ip \in DOMAIN ban_list[h] /\ ban_list[h][ip] > Now

\* C6: an insert stores the instant of the insert plus 5 minutes; no step
\* but the passing of time brings an entry closer; and an accept from ip on
\* a tunnel-mode inbound endpoint fails with ConnAttemptFromBannedIP while
\* an entry for ip inserted by a worker of the process is still ahead, and
\* goes on to the handshake otherwise.
BanDurability ==
    [][ /\ \A w \in Workers :
             (pc[w] = "ban" /\ pc'[w] # "ban") =>
                 /\ err[w].ip \in DOMAIN ban_list'[BanListOf(w)]
                 /\ ban_list'[BanListOf(w)][err[w].ip] = Now + BAN_LENGTH
        /\ pc' # pc =>
             \A h \in BanLists : \A ip \in DOMAIN ban_list[h] :
                 /\ ip \in DOMAIN ban_list'[h]
                 /\ ban_list'[h][ip] >= ban_list[h][ip]
        /\ \A w \in Workers :
             LeavesBanCheck(w) =>
                 IF \E v \in Workers :
                       /\ ProcOf(v) = ProcOf(w)
                       /\ FutureEntry(BanListOf(v), Ip(streams[cur[w]].dproc))
                 THEN err'[w].kind = "ConnAttemptFromBannedIP"
                 ELSE pc'[w] = "ib_nonce"
      ]_vars

SharedBanList ==
    [][ \A w \in Workers : \A v \in Workers \ {w} :
          ( /\ LeavesBanCheck(w)
            /\ ProcOf(v) = ProcOf(w)
            /\ FutureEntry(BanListOf(v), Ip(streams[cur[w]].dproc)) ) =>
              err'[w].kind = "ConnAttemptFromBannedIP"
      ]_vars

\* C9: an address that has an entry still ahead is reported banned by every
\* lookup, whichever worker makes it and whatever the other workers insert;
\* an insert never brings the instant of an address closer, and a lookup
\* answers from one entry, the one the map holds.
BanMonotone ==
    [][ /\ \A w \in Workers :
             LeavesBanCheck(w) =>
                 LET ip == Ip(streams[cur[w]].dproc)
                     seen == { ban_list[BanListOf(v)][ip] :
                                  v \in { u \in Workers :
                                            /\ ProcOf(u) = ProcOf(w)
                                            /\ ip \in DOMAIN ban_list[BanListOf(u)] } }
                 IN /\ Cardinality(seen) <= 1
                    /\ (\E t \in seen : t > Now) => pc'[w] # "ib_nonce"
        /\ \A w \in Workers :
             (pc[w] = "ban" /\ pc'[w] # "ban") =>
                 \A ip \in DOMAIN ban_list[BanListOf(w)] :
                     ban_list'[BanListOf(w)][ip] >= ban_list[BanListOf(w)][ip]
      ]_vars

\* the backoff the policy prescribes for an error, in seconds
Backoff(kind) ==
    CASE kind = "ConnectionRefused" -> 5
      [] kind = "SecretRejected" -> 30
      [] kind = "NonceEarlyEOF" -> 15
      [] OTHER -> 0

\* the positions of a worker inside connect and Tunnel::init
AcquirePcs ==
    {"connect", "accept", "bancheck", "ib_nonce", "ib_auth",
     "ob_nonce", "ob_auth", "ob_start"}

\* C10: when connect fails in stage A or in stage B, the worker sleeps 5 s
\* on ConnectionRefused, 30 s on SecretRejected, 15 s on NonceEarlyEOF, and
\* does not sleep on any other error; a sleeping worker makes its next
\* acquire attempt, again with endpoint A, only when the sleep is over.
BackoffPolicy ==
    [][ \A w \in Workers :
          /\ ( /\ pc[w] \in AcquirePcs
               /\ err'[w].kind # "none"
               /\ (err[w].kind = "none" \/ pc'[w] # pc[w]) ) =>
                /\ err'[w].stage = stage[w]
                /\ IF Backoff(err'[w].kind) > 0
                   THEN /\ pc'[w] = "sleep"
                        /\ timer'[w].until = Now + Backoff(err'[w].kind)
                   ELSE pc'[w] \in {"connect", "ban"}
          /\ (pc[w] = "sleep" /\ pc'[w] # "sleep") =>
                /\ timer[w].until <= Now
                /\ pc'[w] = "connect"
                /\ stage'[w] = "A"
          /\ pc'[w] = "sleep" => pc[w] \in AcquirePcs \cup {"sleep"}
      ]_vars

\* a worker that failed in stage B with SecretRejected is asleep for 30 s
BackoffPolicyWitness ==
    \E w \in Workers :
        /\ pc[w] = "sleep"
        /\ err[w].kind = "SecretRejected"
        /\ err[w].stage = "B"
        /\ timer[w].until = Now + 30

(***************************************************************************)
(* Properties of the worker loop.                                          *)
(***************************************************************************)
\* connect returns an error to worker w in this step
FailStep(w) ==
    /\ pc[w] \in AcquirePcs
    /\ err'[w].kind # "none"
    /\ (err[w].kind = "none" \/ pc'[w] # pc[w])

\* the error kinds that carry an address to ban
BanKinds == {"SecretMismatch", "Timeout"}

\* time passes for the map behind handle h: the instants are kept relative
\* to now, so every one of them comes closer and no worker moves
TimePasses(h) ==
    /\ pc' = pc
    /\ DOMAIN ban_list'[h] = DOMAIN ban_list[h]
    /\ \A ip \in DOMAIN ban_list[h] : ban_list'[h][ip] <= ban_list[h][ip]

\* C11: when connect fails with SecretMismatch(ip) or Timeout(ip), in stage
\* A or in stage B, the worker's next step inserts (ip, now + 5 minutes)
\* into its ban list and continues with stage A without sleeping; an error
\* of any other kind never leads to the insert, and the ban list changes in
\* no other way.
BanOnMismatchOrTimeout ==
    [][ /\ \A w \in Workers :
             /\ FailStep(w) =>
                   IF err'[w].kind \in BanKinds
                   THEN /\ pc'[w] = "ban"
                        /\ err'[w].ip \in IPs
                        /\ err'[w].stage = stage[w]
                        /\ timer'[w] = NoTimer
                   ELSE pc'[w] # "ban"
             /\ (pc[w] = "ban" /\ pc'[w] # "ban") =>
                   /\ err[w].kind \in BanKinds
                   /\ DOMAIN ban_list'[BanListOf(w)] =
                         DOMAIN ban_list[BanListOf(w)] \cup {err[w].ip}
                   /\ \A ip \in DOMAIN ban_list'[BanListOf(w)] :
                         ban_list'[BanListOf(w)][ip] =
                            IF ip = err[w].ip THEN Now + BAN_LENGTH
                            ELSE ban_list[BanListOf(w)][ip]
                   /\ pc'[w] = "connect"
                   /\ stage'[w] = "A"
                   /\ timer'[w] = NoTimer
             /\ pc'[w] = "ban" => (pc[w] = "ban" \/ FailStep(w))
        /\ \A h \in BanLists :
             ban_list'[h] # ban_list[h] =>
                \/ TimePasses(h)
                \/ \E w \in Workers :
                      BanListOf(w) = h /\ pc[w] = "ban" /\ pc'[w] # "ban"
      ]_vars

\* a worker whose stage B ran into Timeout has banned the address and is
\* back at stage A with no sleep pending
BanOnMismatchOrTimeoutWitness ==
    \E w \in Workers :
        /\ err[w].kind = "Timeout"
        /\ err[w].stage = "B"
        /\ pc[w] = "connect"
        /\ stage[w] = "A"
        /\ timer[w] = NoTimer
        /\ err[w].ip \in DOMAIN ban_list[BanListOf(w)]
        /\ ban_list[BanListOf(w)][err[w].ip] = Now + BAN_LENGTH

\* the program's end of the socket behind Connection value x is closed
Closed(ss, x) == ss[x.stream].gone[x.side]

\* worker w is asleep, at the ban insert, or acquiring endpoint A
BeforeA(w) ==
    \/ pc[w] \in {"sleep", "ban"}
    \/ pc[w] \in AcquirePcs /\ stage[w] = "A"

\* C12: when the acquire of B fails, the connection obtained for A is
\* closed in that very step, before the backoff sleep and before the next
\* iteration; a worker that is asleep, at the ban insert or acquiring
\* endpoint A holds no connection.
DropsAOnFailedB ==
    [][ \A w \in Workers :
          /\ (FailStep(w) /\ stage[w] = "B") =>
                /\ held[w].A.variant # "None"
                /\ Closed(streams', held[w].A)
                /\ BeforeA(w)'
          /\ BeforeA(w) => HeldConns(w) = {}
          /\ BeforeA(w)' => HeldConns(w)' = {}
      ]_vars

\* a worker sleeps after the dial of B was refused; the tunnel connection
\* it had accepted and authenticated as A is closed on its side while the
\* peer still has it open
DropsAOnFailedBWitness ==
    \E w \in Workers : \E c \in DOMAIN streams :
        /\ pc[w] = "sleep"
        /\ err[w].stage = "B"
        /\ err[w].kind = "ConnectionRefused"
        /\ HeldConns(w) = {}
        /\ ProcOf(w) = "R"
        /\ streams[c].ep \in Listeners
        /\ streams[c].rd["l"] = AUTH_LEN
        /\ streams[c].gone["l"]
        /\ ~streams[c].gone["d"]

\* the positions of a worker in the loop of start_connection
LoopPcs == AcquirePcs \cup {"sleep", "ban", "relay", "relaying"}

\* worker w is at the top of the loop, about to acquire endpoint A
AtTop(w) == pc[w] = "connect" /\ stage[w] = "A"

\* the relay of worker w has a task that select! will see finished
RoundOver(w) ==
    pc[w] = "relaying" /\ \E t \in TaskNames : tasks[w][t].st \in {"ok", "err"}

\* C13: a spawned worker is always at some position of the loop; every
\* failed acquire leaves it asleep, at the ban insert or at the top of the
\* loop, and from there and from the end of a relay, failed or not, the
\* only way on is the acquire of endpoint A; a worker that sleeps, waits
\* to insert a ban or whose relay round is over reaches the acquire of
\* endpoint A.
LoopForever ==
    /\ [](\A w \in Workers : pc[w] # "off" => pc[w] \in LoopPcs)
    /\ [][ \A w \in Workers :
             /\ pc[w] = "off" <=> pc'[w] = "off"
             /\ FailStep(w) => BeforeA(w)'
             /\ (pc[w] \in {"sleep", "ban", "relaying"} /\ pc'[w] # pc[w]) =>
                   AtTop(w)'
             /\ (pc[w] = "relay" /\ pc'[w] # "relay") =>
                   \/ pc'[w] = "relaying"
                   \/ AtTop(w)' /\ err'[w] = RouteFailed
          ]_vars
    /\ \A w \in Workers :
          (pc[w] \in {"sleep", "ban"} \/ RoundOver(w)) ~> AtTop(w)

\* a worker is at the top of the loop after a relay that returned, the
\* sockets of that relay closed
LoopForeverWitness ==
    \E w \in Workers : \E c \in DOMAIN streams :
        /\ AtTop(w)
        /\ err[w] = NoError
        /\ streams[c].ep = "dead"
        /\ aborted = {}

(***************************************************************************)
(* Properties of the relay.                                                *)
(***************************************************************************)
\* the relay of worker w returns in this step
RelayReturns(w) == pc[w] = "relaying" /\ pc'[w] # "relaying"

\* C14: when run / join / proxy returns, the result is that of a direction
\* that has finished: Ok if it reached a clean end of stream, an I/O error
\* if it ended with an I/O error.
ReturnsFirstResult ==
    [][ \A w \in Workers :
          RelayReturns(w) =>
             \E t \in TaskNames :
                \/ tasks[w][t].st = "ok" /\ err'[w] = NoError
                \/ tasks[w][t].st = "err" /\ err'[w].kind \in IoKinds
      ]_vars

\* the ends of stream c that are sockets of the program
ProgramSides(c) ==
    CASE streams[c].ep \in Listeners -> {"d", "l"}
      [] streams[c].ep = "env" -> {"d"}
      [] OTHER -> {}

\* somebody in the program still has the socket at this end of stream c: a
\* listener's queue, a worker in a handshake, a worker holding the
\* Connection value (or its copy tasks), or an aborted copy task
Owned(c, side) ==
    \/ side = "l" /\ \E ep \in Listeners :
                        \E i \in 1..Len(backlog[ep]) : backlog[ep][i] = c
    \/ \E w \in Workers :
          \/ cur[w] = c /\ side = (IF pc[w] \in {"bancheck", "ib_nonce", "ib_auth"}
                                   THEN "l" ELSE "d")
          \/ \E x \in HeldConns(w) : x.stream = c /\ x.side = side
    \/ \E z \in aborted : [stream |-> c, side |-> side] \in {z.src, z.dst}

\* every open socket of the program has an owner
NoOrphan ==
    \A c \in DOMAIN streams : \A side \in ProgramSides(c) :
        ~streams[c].gone[side] => Owned(c, side)

\* C15: when the relay returns, a task has finished and the other one, if
\* it still runs, is aborted in that step; once both tasks of a relay have
\* finished both sockets are closed; an aborted task holds its halves only
\* until it is cancelled, which closes both sockets, and it is cancelled
\* eventually; no socket of the program is ever left open without an
\* owner.
AbortsTheOther ==
    /\ [](/\ NoOrphan
          /\ \A w \in Workers :
                (pc[w] = "relaying" /\ \A t \in TaskNames : tasks[w][t].st # "run") =>
                    \A x \in HeldConns(w) : Closed(streams, x))
    /\ [][ /\ \A w \in Workers :
               RelayReturns(w) =>
                  /\ \E t \in TaskNames : tasks[w][t].st \in {"ok", "err"}
                  /\ \A t \in TaskNames :
                        tasks[w][t].st = "run" =>
                           [src |-> tasks[w][t].src, dst |-> tasks[w][t].dst]
                               \in aborted'
                  /\ tasks'[w] = NoTasks
           /\ \A z \in aborted :
                  z \notin aborted' =>
                     /\ streams'[z.src.stream].gone[z.src.side]
                     /\ streams'[z.dst.stream].gone[z.dst.side]
         ]_vars
    /\ (aborted # {}) ~> (aborted = {})

\* a relay has returned while one task was running: the worker is back at
\* the top of the loop and the aborted task, not yet cancelled, still keeps
\* both sockets open
AbortsTheOtherWitness ==
    \E z \in aborted : \E w \in Workers :
        /\ ~streams[z.src.stream].gone[z.src.side]
        /\ ~streams[z.dst.stream].gone[z.dst.side]
        /\ AtTop(w)
        /\ err[w] = NoError
        /\ HeldConns(w) = {}
        /\ ProcOf(w) = streams[z.src.stream].dproc

\* C16 as stated: when the relay returns after a direction ended cleanly
\* at its end of stream, the opposite direction has ended too: no task is
\* still running and none is aborted.
GracefulClose ==
    [][ \A w \in Workers :
          (RelayReturns(w) /\ \E t \in TaskNames : tasks[w][t].st = "ok") =>
              /\ \A t \in TaskNames : tasks[w][t].st # "run"
              /\ aborted' = aborted
      ]_vars

\* C16, amended: a direction ends cleanly exactly when it reads the end of
\* its source, and it has then half-closed its destination; the relay does
\* not wait for the opposite direction: when it returns after a clean end,
\* a direction that is still running is aborted, the result is Ok and the
\* worker is at the top of the loop.
HalfCloseEndsRelay ==
    [][ \A w \in Workers :
          /\ \A t \in TaskNames :
                (tasks[w][t].st = "run" /\ tasks'[w][t].st = "ok") =>
                   /\ ReadEof(streams[tasks[w][t].src.stream],
                              tasks[w][t].src.side, 1)
                   /\ streams'[tasks[w][t].dst.stream].fin[tasks[w][t].dst.side]
          /\ (RelayReturns(w) /\ \E t \in TaskNames : tasks[w][t].st = "ok") =>
                /\ \A t \in TaskNames :
                      tasks[w][t].st = "run" =>
                         [src |-> tasks[w][t].src, dst |-> tasks[w][t].dst]
                             \in aborted'
                /\ err'[w] = NoError
                /\ AtTop(w)'
      ]_vars

\* a direction was aborted although its source has not ended: the socket
\* it reads from is open on both sides and only the opposite direction has
\* half-closed it
HalfCloseEndsRelayWitness ==
    \E z \in aborted :
        LET s == streams[z.src.stream]
        IN /\ ~s.gone[z.src.side]
           /\ s.fin[z.src.side]
           /\ ~s.gone[Other(z.src.side)]
           /\ ~s.fin[Other(z.src.side)]

\* the handshake bytes a Tunnel's own side wrote before the relayed ones,
\* and those its peer wrote
HdrOut(x) == IF x.is_inbound THEN NONCE_LEN + 1 ELSE AUTH_LEN
HdrIn(x) == IF x.is_inbound THEN AUTH_LEN ELSE NONCE_LEN + 1

\* what the peer of Tunnel x recovers from the i-th relayed byte b with its
\* own cipher, made from the same (secret, nonce)
PeerDecrypt(x, i, b) == Xor(b, Keystream(x.secret, x.nonce, i - 1))

\* worker w relays between Tunnel x and Direct y, both sockets still there
TunnelDirect(w, x, y) ==
    /\ pc[w] = "relaying"
    /\ x \in HeldConns(w) /\ x.variant = "Tunnel"
    /\ y \in HeldConns(w) /\ y.variant = "Direct"
    /\ streams[x.stream].ep # "dead"
    /\ streams[y.stream].ep # "dead"

\* the relayed bytes on the two sides of a tunnel-direct relay: what the
\* target wrote and what was written to it, what the worker wrote to the
\* tunnel and what the tunnel peer wrote
FromTarget(y) == streams[y.stream].out[Other(y.side)]
ToTarget(y) == streams[y.stream].out[y.side]
ToTunnel(x) ==
    SubSeq(streams[x.stream].out[x.side], HdrOut(x) + 1,
           Len(streams[x.stream].out[x.side]))
FromTunnel(x) ==
    SubSeq(streams[x.stream].out[Other(x.side)], HdrIn(x) + 1,
           Len(streams[x.stream].out[Other(x.side)]))

Prefix(q, n) == SubSeq(q, 1, n)

\* C18: for every secret, nonce and plaintext, what the second of two
\* cipher instances made from the same (secret, nonce) has put out is, at
\* every moment and whatever the lengths of the reads of the two, the
\* plaintext the first one has taken in so far; each instance is at the
\* position of the bytes it has itself processed.
CipherRoundTrip ==
    cx.kind = "pair" =>
        /\ \A j \in 1..2 :
              /\ Len(cx.stages[j]) = 1
              /\ cx.stages[j][1].key = cx.from.secret
              /\ cx.stages[j][1].nonce = cx.from.nonce
              /\ cx.stages[j][1].pos = cx.rd[j]
              /\ Len(cx.outs[j]) = cx.rd[j]
        /\ cx.outs[2] = Prefix(cx.plain, cx.rd[2])

\* a plaintext of three bytes has gone through both instances, in reads of
\* different lengths, and has come out as it went in, the bytes in between
\* being different ones
CipherRoundTripWitness ==
    /\ cx.kind = "pair"
    /\ Len(cx.plain) >= 3
    /\ cx.outs[2] = cx.plain
    /\ cx.outs[1] # cx.plain
    /\ cx.cuts[1] # cx.cuts[2]
    /\ Len(cx.cuts[1]) > 1

\* C19: the direction of a join that reads from tunnel A holds the ciphers
\* [A's, B's] in that order, each at the position of the bytes relayed;
\* what it writes is the plaintext encrypted under (secret_B, nonce_B) at
\* the same positions, and B's peer recovers the plaintext; the same with
\* A and B exchanged.
JoinReencrypts ==
    cx.kind = "join" =>
        /\ Len(cx.stages[2]) = 2
        /\ cx.stages[2][1] =
              [NewCipher(cx.from.secret, cx.from.nonce) EXCEPT !.pos = cx.rd[2]]
        /\ cx.stages[2][2] =
              [NewCipher(cx.to.secret, cx.to.nonce) EXCEPT !.pos = cx.rd[2]]
        /\ cx.outs[1] = KeystreamOut(NewCipher(cx.from.secret, cx.from.nonce),
                                     Prefix(cx.plain, cx.rd[1]))
        /\ cx.outs[2] = KeystreamOut(NewCipher(cx.to.secret, cx.to.nonce),
                                     Prefix(cx.plain, cx.rd[2]))
        /\ cx.outs[3] = Prefix(cx.plain, cx.rd[3])

\* a plaintext of three bytes has crossed a join from tunnel B to tunnel A,
\* the two tunnels having different secrets and nonces, in reads of
\* different lengths
JoinReencryptsWitness ==
    /\ cx.kind = "join"
    /\ cx.from.stream = 2
    /\ cx.from.secret # cx.to.secret
    /\ cx.from.nonce # cx.to.nonce
    /\ Len(cx.plain) >= 3
    /\ cx.outs[3] = cx.plain
    /\ cx.outs[2] # cx.outs[1]
    /\ cx.outs[2] # cx.plain
    /\ cx.cuts[2] # cx.cuts[1]
    /\ cx.cuts[3] # cx.cuts[2]

\* C20: the two cipher instances of the two directions of one tunnel,
\* made from the same (secret, nonce), never apply the same keystream
\* position to two different plaintext bytes: at every position both have
\* passed, the plaintext byte of the one direction is that of the other.
KeystreamNonCollision ==
    \A w \in Workers : \A x, y \in HeldConns(w) :
        TunnelDirect(w, x, y) =>
            LET r == ReadTask(w, x).ciphers[1]
                o == WriteTask(w, x).ciphers[1]
            IN (r.key = o.key /\ r.nonce = o.nonce) =>
                  \A i \in 1..Min(r.pos, o.pos) :
                      ToTarget(y)[i] = FromTarget(y)[i]

\* the i-th relayed byte a tunnel side puts on the wire: the payload byte p
\* XORed with the keystream of (key, nonce) at position i - 1
WireByte(key, nonce, i, p) == Xor(p, Keystream(key, nonce, i - 1))

\* byte y, the i-th that `side` of connection c writes, has its form: on a
\* tunnel connection the accepting side writes the 12 nonce bytes, then
\* 0x01 or 0x02, then payload bytes XORed with the keystream; the dialing
\* side writes the 4 bytes of AUTH XORed with the keystream, then payload
\* bytes XORed with the keystream; on a direct connection the program
\* writes the payload bytes unmodified
WireForm(s, c, side, i, y) ==
    LET n == GenerateNonce(rng, c)
    IN IF s.ep = "env"
       THEN side = "d" => y = PayloadByte(IF s.dproc = "R" THEN "C" ELSE "R", i)
       ELSE IF side = "l"
       THEN y = IF i <= NONCE_LEN THEN n[i]
                ELSE IF i = NONCE_LEN + 1
                THEN (IF secret["CT"] = secret[s.ep]
                      THEN START_OK ELSE START_MISMATCH)
                ELSE WireByte(secret[s.ep], n, i - NONCE_LEN - 1,
                              PayloadByte("R", i - NONCE_LEN - 1))
       ELSE y = IF i <= AUTH_LEN
                THEN WireByte(secret["CT"], n, i, AUTH[i])
                ELSE WireByte(secret["CT"], n, i - AUTH_LEN,
                              PayloadByte("C", i - AUTH_LEN))

\* what `side` of connection c has written so far
WrittenBy(c, side) ==
    IF c \in DOMAIN streams THEN streams[c].out[side] ELSE <<>>

\* C21: every byte the program writes to a socket, in the handshake or in
\* the relay, has one of the listed forms and is at its place: a nonce
\* byte, a byte of AUTH XOR keystream, 0x01 or 0x02, a payload byte XOR
\* keystream, or on a direct connection the payload byte unmodified; what a
\* side has written is never taken back.  No byte written is the secret.
SecretsOffWire ==
    [][ \A c \in DOMAIN streams' : \A side \in {"d", "l"} :
          (streams'[c].ep # "dead" /\ streams'[c].out[side] # WrittenBy(c, side)) =>
             /\ Prefix(streams'[c].out[side], Len(WrittenBy(c, side)))
                   = WrittenBy(c, side)
             /\ \A i \in (Len(WrittenBy(c, side)) + 1)..Len(streams'[c].out[side]) :
                   WireForm(streams'[c], c, side, i, streams'[c].out[side][i])
      ]_vars

\* a tunnel connection on which all of it has been written: the nonce, the
\* encrypted AUTH, 0x01 and an encrypted payload byte in each direction
SecretsOffWireWitness ==
    \E c \in DOMAIN streams :
        /\ streams[c].ep \in Listeners
        /\ Len(streams[c].out["l"]) > NONCE_LEN + 1
        /\ Len(streams[c].out["d"]) > AUTH_LEN

\* worker w is inside listener.accept() of listener l
InAccept(w, l) == pc[w] = "accept" /\ EpOf(w) = l

\* accept has returned connection c to worker w: w is in the handshake on it
\* or holds it as a Connection
Accepted(w, c) ==
    /\ ProcOf(w) = "R"
    /\ \/ cur[w] = c
       \/ \E x \in HeldConns(w) : x.stream = c /\ x.side = "l"

\* C22: with several workers on one inbound listener, at most one worker is
\* inside accept on it at any time (the one that holds the listener's
\* lock); a connection still queued has been returned to no worker, no
\* connection is ever returned to two workers, and the step that takes a
\* connection out of the listener's queue returns it to exactly one worker,
\* the one that was inside accept.
AcceptorContention ==
    /\ [](/\ \A l \in Listeners : \A w1, w2 \in Workers :
               (InAccept(w1, l) /\ InAccept(w2, l)) => w1 = w2
          /\ \A l \in Listeners : \A w \in Workers :
               InAccept(w, l) => lock[l] = w
          /\ \A c \in DOMAIN streams : \A w1, w2 \in Workers :
               (Accepted(w1, c) /\ Accepted(w2, c)) => w1 = w2
          /\ \A l \in Listeners : \A i \in 1..Len(backlog[l]) :
               \A w \in Workers : ~Accepted(w, backlog[l][i]))
    /\ [][ \A l \in Listeners :
             (backlog[l] # <<>> /\ backlog'[l] = Tail(backlog[l])) =>
                \E w \in Workers : \E c \in {Head(backlog[l])} :
                   /\ InAccept(w, l)
                   /\ Accepted(w, c)'
                   /\ \A v \in Workers \ {w} : ~Accepted(v, c)'
          ]_vars

\* two workers of the same listener, each with a connection that accept
\* returned to it alone
AcceptorContentionWitness ==
    \E c1, c2 \in DOMAIN streams :
        /\ c1 # c2
        /\ Accepted("r1", c1)
        /\ Accepted("r2", c2)

\* endpoint e is in tunnel mode and has no secret
SecretMissing(e) == e.kind = "Tunnel" /\ e.secret = NoSecretOption

\* C23: building the binding of a tunnel-mode endpoint without a secret
\* gives NoSecret, with no listener bound and no binding; it gives NoSecret
\* for no other endpoint.  So such an endpoint never has a binding or a
\* listener, a configuration that has one never gets its map of bindings,
\* and when the build ended with NoSecret no listener and no binding is
\* left.  A direct-mode endpoint, with or without a secret in the
\* configuration, is never answered NoSecret, and every binding it gets has
\* no secret; the binding of a tunnel-mode endpoint has the key made from
\* its secret.
NoSecretRejected ==
    /\ \A e \in ConfigEndpoints : \A b \in BOOLEAN :
          LET r == GetConnectionData(e, b)
          IN /\ r.err = "NoSecret" <=> SecretMissing(e)
             /\ SecretMissing(e) => (~r.bound /\ r.data = NoData)
             /\ (e.kind = "Direct" /\ r.err = "none") =>
                   r.data.secret_option = NoSecretOption
             /\ (e.kind = "Direct" /\ (e.direction = "Outbound" \/ b)) =>
                   r.err = "none" /\ r.data.variant = e.direction
    /\ cx.kind = "config" =>
          /\ \A j \in DOMAIN cx.endpoints :
                LET e == cx.endpoints[j]
                IN /\ SecretMissing(e) =>
                         /\ cx.map[j] = NoData
                         /\ j \notin cx.listeners
                         /\ cx.result # "Ok"
                   /\ cx.map[j] # NoData =>
                         /\ cx.map[j].variant = e.direction
                         /\ cx.map[j].secret_option =
                               IF e.kind = "Direct" THEN NoSecretOption
                               ELSE Some(GenerateSecretFromString(SecretOf(e)))
          /\ cx.result = "NoSecret" =>
                /\ \E j \in DOMAIN cx.endpoints : SecretMissing(cx.endpoints[j])
                /\ cx.listeners = {}
                /\ \A j \in DOMAIN cx.endpoints : cx.map[j] = NoData

\* the build of a configuration ended with NoSecret after the listener of
\* another endpoint, a direct one with a secret in the file, had been bound
NoSecretRejectedWitness ==
    /\ cx.kind = "config"
    /\ cx.result = "NoSecret"
    /\ \E j \in DOMAIN cx.endpoints :
          /\ cx.endpoints[j].kind = "Direct"
          /\ cx.endpoints[j].direction = "Inbound"
          /\ cx.endpoints[j].secret # NoSecretOption

\* the wait of worker w for the peer's bytes has lasted its full time and
\* fewer than n bytes are there, with neither end of stream nor a reset
TimedOut(w, side, n) ==
    /\ Now >= hs[w].deadline
    /\ Len(Avail(streams[cur[w]], side)) < n
    /\ ~streams[cur[w]].fin[Other(side)]
    /\ ~streams[cur[w]].rst[side]

\* C24: the inbound side gives the peer AUTH_TIMEOUT (5 s) from the write
\* of the nonce.  When it leaves the wait for the 4 auth bytes with the
\* time over and the bytes not there, the handshake has failed with
\* Timeout(peer ip); and whenever it fails with Timeout, the time was over,
\* the 4 bytes were not there, the ip is the peer's, and the inbound side
\* has written the nonce and nothing else: no 0x02 then or later.
AuthTimeout ==
    /\ [][ \A w \in Workers :
             (pc[w] = "ib_nonce" /\ pc'[w] = "ib_auth") =>
                hs'[w].deadline = Now + AUTH_TIMEOUT ]_vars
    /\ [][ \A w \in Workers :
             (pc[w] = "ib_auth" /\ pc'[w] # "ib_auth") =>
                LET c == cur[w]
                    s == streams[c]
                IN /\ TimedOut(w, "l", AUTH_LEN) =>
                         /\ err'[w].kind = "Timeout"
                         /\ err'[w].ip = PeerIp(s, "l")
                   /\ err'[w].kind = "Timeout" =>
                         /\ TimedOut(w, "l", AUTH_LEN)
                         /\ err'[w].ip = PeerIp(s, "l")
                         /\ s.out["l"] = hs[w].nonce
                         /\ streams'[c].ep # "dead" =>
                               /\ streams'[c].out["l"] = hs[w].nonce
                               /\ streams'[c].gone["l"] ]_vars
    /\ [][ \A c \in DOMAIN streams :
             (streams[c].ep \in Listeners /\ streams[c].gone["l"]
              /\ streams'[c].ep # "dead") =>
                streams'[c].out["l"] = streams[c].out["l"] ]_vars

\* an inbound handshake has ended with Timeout while the peer still has the
\* connection: all that was written to it is the nonce
AuthTimeoutWitness ==
    \E w \in Workers : \E c \in DOMAIN streams :
        /\ ProcOf(w) = "R"
        /\ err[w].kind = "Timeout"
        /\ err[w].ip = "ipC"
        /\ pc[w] = "ban"
        /\ streams[c].ep \in Listeners
        /\ streams[c].gone["l"]
        /\ streams[c].out["l"] = GenerateNonce(rng, c)
        /\ Len(streams[c].out["d"]) < AUTH_LEN

\* C25: the outbound side gives the peer NONCE_TIMEOUT (5 s) from the
\* connect.  When it leaves the wait for the 12 nonce bytes at an end of
\* stream with fewer than 12 bytes, the handshake has failed with
\* NonceEarlyEOF; when it leaves it with the time over, the bytes not there
\* and no end of stream, it has failed with Timeout(peer ip); neither
\* error arises in another way, and in both cases the outbound side has
\* written no byte to the connection, then or before.
NonceRead ==
    /\ [][ \A w \in Workers :
             (pc[w] = "connect" /\ pc'[w] = "ob_nonce") =>
                /\ hs'[w].deadline = Now + NONCE_TIMEOUT
                /\ streams'[cur'[w]].out["d"] = <<>> ]_vars
    /\ [][ \A w \in Workers :
             (pc[w] = "ob_nonce" /\ pc'[w] # "ob_nonce") =>
                LET c == cur[w]
                    s == streams[c]
                IN /\ ReadEof(s, "d", NONCE_LEN) =>
                         err'[w].kind = "NonceEarlyEOF"
                   /\ TimedOut(w, "d", NONCE_LEN) =>
                         /\ err'[w].kind = "Timeout"
                         /\ err'[w].ip = PeerIp(s, "d")
                   /\ err'[w].kind = "NonceEarlyEOF" => ReadEof(s, "d", NONCE_LEN)
                   /\ err'[w].kind = "Timeout" =>
                         /\ TimedOut(w, "d", NONCE_LEN)
                         /\ err'[w].ip = PeerIp(s, "d")
                   /\ err'[w].kind \in {"NonceEarlyEOF", "Timeout"} =>
                         /\ s.out["d"] = <<>>
                         /\ streams'[c].ep # "dead" =>
                               /\ streams'[c].out["d"] = <<>>
                               /\ streams'[c].gone["d"] ]_vars
    /\ [](\A w \in Workers :
            pc[w] = "ob_nonce" => streams[cur[w]].out["d"] = <<>>)

\* the outbound side found the connection closed before any nonce byte and
\* sleeps NONCE_EARLY_EOF_TIMEOUT
NonceReadWitness ==
    \E w \in Workers :
        /\ ProcOf(w) = "C"
        /\ err[w].kind = "NonceEarlyEOF"
        /\ pc[w] = "sleep"
        /\ timer[w].until = Now + NONCE_EARLY_EOF_TIMEOUT

\* C26: after AUTH the outbound side reads exactly one byte; the handshake
\* fails with SecretRejected if and only if that byte is 0x02, and for each
\* of the 255 other values (0x00, 0x01, 0x03..0xFF) the tunnel is Ready;
\* a byte that follows is left unread for the relay.
ReadinessByte ==
    (cx.kind = "start" /\ cx.result # "pending") =>
        /\ cx.rd = 1
        /\ cx.result = "SecretRejected" <=> cx.inbox[1] = 2
        /\ cx.inbox[1] \in (0..1) \cup (3..255) => cx.result = "Ready"
        /\ cx.result \in {"SecretRejected", "Ready"}

\* a starting byte that is neither 0x01 nor 0x02 has made the tunnel Ready,
\* with the next byte still unread
ReadinessByteWitness ==
    /\ cx.kind = "start"
    /\ cx.result = "Ready"
    /\ cx.inbox[1] = 0
    /\ Len(cx.inbox) = 2
    /\ cx.rd = 1

\* the endpoint on which connect gave worker w its last error
ErrEp(w) == route[ProcOf(w)][IF err[w].stage = "A" THEN 1 ELSE 2]

\* C27: a worker inserts into the ban list only after a failure on an
\* inbound endpoint (the address of the peer it had accepted); a failure
\* obtained while dialing an outbound endpoint, the Timeout of the
\* nonce read included, inserts nothing.
BanOnlyInboundPeers ==
    [][ \A w \in Workers :
          (ban_list'[BanListOf(w)] # ban_list[BanListOf(w)]
           /\ pc[w] = "ban" /\ pc'[w] # "ban") =>
              Endpoints[ErrEp(w)].direction = "Inbound" ]_vars

\* what the source side of copy task k has consumed and what its
\* destination side has written
TaskRead(ss, k) == ss[k.src.stream].rd[k.src.side]
TaskWritten(ss, k) == ss[k.dst.stream].out[k.dst.side]

\* both sockets of copy task k are still there in ss
TaskSockets(ss, k) ==
    ss[k.src.stream].ep # "dead" /\ ss[k.dst.stream].ep # "dead"

\* C28: a copy task whose read returns 0 takes one more step, in which it
\* writes no data byte: it shuts down the write side of its destination and
\* ends Ok, or ends with the error of the shutdown.  A task ends Ok in no
\* other way; it ends with an error only when its read failed or its
\* destination refused the write or the shutdown, and then it has written
\* nothing in that step; a task that has ended reads and writes no more.
ReadWriteEnds ==
    [][ \A w \in Workers : \A t \in TaskNames :
          (pc[w] = "relaying" /\ pc'[w] = "relaying") =>
             LET k == tasks[w][t]
                 s == streams[k.src.stream]
                 d == streams[k.dst.stream]
             IN /\ (k.st = "run" /\ tasks'[w][t] # k
                    /\ ReadEof(s, k.src.side, 1)) =>
                      /\ tasks'[w][t].st = IF d.rst[k.dst.side] THEN "err" ELSE "ok"
                      /\ TaskSockets(streams', k) =>
                            /\ TaskWritten(streams', k) = TaskWritten(streams, k)
                            /\ TaskRead(streams', k) = TaskRead(streams, k)
                /\ (k.st = "run" /\ tasks'[w][t].st = "ok") =>
                      /\ ReadEof(s, k.src.side, 1)
                      /\ ~d.rst[k.dst.side]
                      /\ TaskSockets(streams', k) =>
                            /\ streams'[k.dst.stream].fin[k.dst.side]
                            /\ TaskWritten(streams', k) = TaskWritten(streams, k)
                /\ (k.st = "run" /\ tasks'[w][t].st = "err") =>
                      /\ ReadReset(s, k.src.side, 1) \/ d.rst[k.dst.side]
                      /\ TaskSockets(streams', k) =>
                            /\ TaskWritten(streams', k) = TaskWritten(streams, k)
                            /\ ~d.fin[k.dst.side] =>
                                  ~streams'[k.dst.stream].fin[k.dst.side]
                /\ k.st \in {"ok", "err"} =>
                      /\ tasks'[w][t] = k
                      /\ TaskSockets(streams', k) =>
                            /\ TaskWritten(streams', k) = TaskWritten(streams, k)
                            /\ TaskRead(streams', k) = TaskRead(streams, k)
      ]_vars

\* a copy task has ended Ok at the end of its source, its destination is
\* shut down for writing, and the other task of the relay still runs
ReadWriteEndsWitness ==
    \E w \in Workers : \E t \in TaskNames :
        /\ pc[w] = "relaying"
        /\ tasks[w][t].st = "ok"
        /\ tasks[w][Sibling(t)].st = "run"
        /\ TaskSockets(streams, tasks[w][t])
        /\ streams[tasks[w][t].dst.stream].fin[tasks[w][t].dst.side]

RECURSIVE SumSeq(_)
\* n1 + ... + nk
SumSeq(q) == IF q = <<>> THEN 0 ELSE Head(q) + SumSeq(Tail(q))

RECURSIVE XorAt(_, _, _)
\* byte b, the i-th of its stream, XORed with keystream position i - 1 of
\* every cipher of the list
XorAt(ciphers, i, b) ==
    IF ciphers = <<>> THEN b
    ELSE XorAt(Tail(ciphers), i,
               Xor(b, Keystream(Head(ciphers).key, Head(ciphers).nonce, i - 1)))

\* C29: after reads of n1..nk bytes (each 1..8192) every cipher of a copy
\* task's list stands at n1 + ... + nk, a read of n bytes moving each of
\* them by n; the i-th byte the task has written is the i-th byte it read
\* XORed with keystream position i - 1 of each cipher, whatever the
\* lengths of the reads; and the cipher that receives a stream is made
\* from the (secret, nonce) of the one that sent it and never ahead of it.
KeystreamAlignment ==
    /\ [](cx.kind \in {"pair", "join"} =>
            \A j \in DOMAIN cx.stages :
               /\ cx.rd[j] = SumSeq(cx.cuts[j])
               /\ \A i \in 1..Len(cx.cuts[j]) : cx.cuts[j][i] \in 1..BUFFER_LEN
               /\ \A m \in 1..Len(cx.stages[j]) :
                     cx.stages[j][m].pos = SumSeq(cx.cuts[j])
               /\ Len(cx.outs[j]) = SumSeq(cx.cuts[j])
               /\ \A i \in 1..Len(cx.outs[j]) :
                     cx.outs[j][i] = XorAt(cx.stages[j], i, PipeInput(j)[i])
               /\ j > 1 =>
                     /\ cx.stages[j][1].key =
                           cx.stages[j - 1][Len(cx.stages[j - 1])].key
                     /\ cx.stages[j][1].nonce =
                           cx.stages[j - 1][Len(cx.stages[j - 1])].nonce
                     /\ cx.stages[j][1].pos <=
                           cx.stages[j - 1][Len(cx.stages[j - 1])].pos)
    /\ [][ cx.kind \in {"pair", "join"} =>
             \A j \in DOMAIN cx.stages : \A m \in 1..Len(cx.stages[j]) :
                cx'.stages[j][m].pos - cx.stages[j][m].pos = cx'.rd[j] - cx.rd[j]
         ]_vars

\* three bytes have crossed a join: the sender took them in one read, the
\* join in reads of 1 and 2 bytes, and both ciphers of the join stand at 3
KeystreamAlignmentWitness ==
    /\ cx.kind = "join"
    /\ cx.cuts[1] = <<3>>
    /\ cx.cuts[2] = <<1, 2>>
    /\ cx.stages[2][1].pos = 3
    /\ cx.stages[2][2].pos = 3
    /\ cx.stages[2][1].key # cx.stages[2][2].key

\* the place of the relay's own copy task among the stages of a shape
\* pipeline, and the last stage
RelayStage == IF cx.from.variant = "Tunnel" THEN 2 ELSE 1
LastStage == Len(cx.stages)

\* the cipher lists of the two copy tasks of (a, b): from a and from b
ShapeOf(a, b) ==
    << CiphersFrom(RelayTasks(a, b), a), CiphersFrom(RelayTasks(a, b), b) >>

\* C30: the copy tasks made for (ts_a, ts_b) are one from a to b and one
\* from b to a, and their cipher lists depend on the variants alone:
\* Direct/Direct has no cipher and forwards every byte unchanged;
\* Tunnel/Direct and Direct/Tunnel have in each direction the tunnel's
\* cipher and nothing else, so what goes to the direct side is the
\* plaintext and what goes to the tunnel is the plaintext XORed once with
\* the tunnel's keystream, which the tunnel's peer undoes; Tunnel/Tunnel has
\* the two ciphers of join, the source's and then the destination's.
\* Whether a tunnel is inbound or outbound makes no difference.
RelayShape ==
    cx.kind \in {"ab", "ba"} =>
       /\ LET a == IF cx.kind = "ab" THEN cx.from ELSE cx.to
              b == IF cx.kind = "ab" THEN cx.to ELSE cx.from
          IN /\ { <<RelayTasks(a, b)[t].src, RelayTasks(a, b)[t].dst>> : t \in TaskNames }
                   = { <<End(a), End(b)>>, <<End(b), End(a)>> }
             /\ ShapeOf(a, b) =
                   CASE a.variant = "Direct" /\ b.variant = "Direct" -> << <<>>, <<>> >>
                     [] a.variant = "Tunnel" /\ b.variant = "Direct" ->
                           << <<NewCipher(a.secret, a.nonce)>>,
                              <<NewCipher(a.secret, a.nonce)>> >>
                     [] a.variant = "Direct" /\ b.variant = "Tunnel" ->
                           << <<NewCipher(b.secret, b.nonce)>>,
                              <<NewCipher(b.secret, b.nonce)>> >>
                     [] a.variant = "Tunnel" /\ b.variant = "Tunnel" ->
                           << <<NewCipher(a.secret, a.nonce), NewCipher(b.secret, b.nonce)>>,
                              <<NewCipher(b.secret, b.nonce), NewCipher(a.secret, a.nonce)>> >>
       /\ LET r == RelayStage
              in == Prefix(PipeInput(r), cx.rd[r])
              plain == Prefix(cx.plain, cx.rd[r])
          IN /\ Len(cx.stages[r]) =
                   (IF cx.from.variant = "Tunnel" THEN 1 ELSE 0)
                   + (IF cx.to.variant = "Tunnel" THEN 1 ELSE 0)
             /\ cx.from.variant = "Tunnel" =>
                   \A i \in 1..Len(in) :
                      in[i] = Xor(plain[i],
                                  Keystream(cx.from.secret, cx.from.nonce, i - 1))
             /\ cx.from.variant = "Direct" => in = plain
             /\ cx.to.variant = "Direct" => cx.outs[r] = plain
             /\ cx.to.variant = "Tunnel" =>
                   \A i \in 1..Len(plain) :
                      cx.outs[r][i] =
                         Xor(plain[i], Keystream(cx.to.secret, cx.to.nonce, i - 1))
             /\ cx.outs[LastStage] = Prefix(cx.plain, cx.rd[LastStage])

\* a Direct/Tunnel pair has relayed three bytes from the tunnel to the
\* direct side: what arrived is the plaintext, what was on the wire is not
RelayShapeWitness ==
    /\ cx.kind = "ba"
    /\ cx.to.variant = "Direct"
    /\ cx.from.variant = "Tunnel"
    /\ Len(cx.plain) = 3
    /\ cx.outs[2] = cx.plain
    /\ cx.outs[1] # cx.plain

\* worker w waits for the auth token or for the nonce
TimedWait(w) == pc[w] \in {"ib_auth", "ob_nonce"}

\* C31: a worker that waits for the auth token on the inbound side, or for
\* the nonce on the outbound side, always leaves that wait, to the next
\* step of the handshake or to a failure, whatever the peer does or does
\* not send (no step leads from one of the two waits into the other, so
\* leaving the pair is leaving the wait); the wait for the starting byte has
\* no timer: it ends only with a byte, an end of stream or a reset from the
\* peer.
BoundedWaits ==
    /\ \A w \in Workers : TimedWait(w) ~> ~TimedWait(w)
    /\ [][ \A w \in Workers :
             /\ (TimedWait(w) /\ pc'[w] # pc[w]) => ~TimedWait(w)'
             /\ (pc[w] = "ob_start" /\ pc'[w] # "ob_start") =>
                   \/ CanRead(streams[cur[w]], "d", 1)
                   \/ ReadEof(streams[cur[w]], "d", 1)
                   \/ ReadReset(streams[cur[w]], "d", 1) ]_vars

\* the outbound side still waits for the starting byte when 5 s and more
\* have passed since it dialed, and the inbound side has failed by timeout
\* on another connection
BoundedWaitsWitness ==
    \E w, v \in Workers :
        /\ pc[w] = "ob_start"
        /\ hs[w].deadline <= Now
        /\ Avail(streams[cur[w]], "d") = <<>>
        /\ ~streams[cur[w]].fin["l"]
        /\ DOMAIN ban_list[BanListOf(v)] # {}
        /\ ProcOf(v) = "R"

\* worker v finds the peer of the connection it accepted in its ban list
Rejects(v) == pc[v] = "bancheck" /\ BannedAt(v)

\* the worker that dialed connection c still waits for the nonce on it
Dialer(w, c) == cur[w] = c /\ pc[w] = "ob_nonce"

\* what a rejection does: nothing was and nothing is written on the
\* accepted side, which is closed; a dialer that waits for the nonce leaves
\* that wait with NonceEarlyEOF and sleeps NONCE_EARLY_EOF_TIMEOUT, and a
\* sleeper dials only once its sleep is over
RejectionFeedback ==
    \A v, w \in Workers :
        /\ (Rejects(v) /\ pc'[v] # "bancheck") =>
              \E c \in {cur[v]} :
                 /\ err'[v].kind = "ConnAttemptFromBannedIP"
                 /\ streams[c].out["l"] = <<>>
                 /\ streams'[c].out["l"] = <<>>
                 /\ streams'[c].fin["l"]
                 /\ Dialer(w, c) => ReadEof(streams'[c], "d", NONCE_LEN)
        /\ (pc[w] = "ob_nonce" /\ pc'[w] # "ob_nonce"
            /\ ReadEof(CurStream(w), "d", NONCE_LEN)) =>
              /\ err'[w].kind = "NonceEarlyEOF"
              /\ pc'[w] = "sleep"
              /\ timer'[w].until = Now + NONCE_EARLY_EOF_TIMEOUT
        /\ (pc[w] = "sleep" /\ pc'[w] # "sleep") =>
              /\ Now >= timer[w].until
              /\ pc'[w] = "connect"

\* C32 as stated: the dialer of every connection that an inbound worker
\* rejects for a banned address still waits for the nonce when the
\* connection is closed, so its handshake ends with NonceEarlyEOF and a
\* sleep of 15 s.
BanFeedback ==
    [][ /\ RejectionFeedback
        /\ \A v \in Workers :
              (Rejects(v) /\ pc'[v] # "bancheck") =>
                 \E w \in Workers : Dialer(w, cur[v]) ]_vars

\* C32: when an inbound worker accepts a connection and finds its peer in
\* the ban list it looks up, no nonce byte is written and the connection is
\* closed; a dialer that still waits for the nonce then (its 5 s are not
\* over) fails with NonceEarlyEOF and sleeps 15 s before it dials again.
BanFeedbackInTime == [][RejectionFeedback]_vars

\* the dialer sleeps its 15 s after NonceEarlyEOF and the inbound worker's
\* last error is the rejection of the banned address
BanFeedbackInTimeWitness ==
    \E v, w \in Workers :
        /\ err[v].kind = "ConnAttemptFromBannedIP"
        /\ pc[w] = "sleep"
        /\ err[w].kind = "NonceEarlyEOF"
        /\ timer[w].until = Now + NONCE_EARLY_EOF_TIMEOUT

\* C33: after reads of n1, ..., nk bytes the cipher of the library's
\* read_write stands at n1 + ... + nk, and the i-th byte it forwarded is
\* the i-th byte it read XORed with keystream position i - 1, whatever the
\* lengths of the reads.
LibKeystreamAlignment ==
    cx.kind = "lib" =>
       /\ cx.stages[1][1].pos = SumSeq(cx.cuts[1])
       /\ \A i \in 1..Len(cx.outs[1]) :
             cx.outs[1][i] =
                Xor(cx.plain[i],
                    Keystream(cx.stages[1][1].key, cx.stages[1][1].nonce, i - 1))

\* worker w is past accept on an inbound tunnel endpoint: at the ban
\* lookup or inside Tunnel::init
InHandshake(w) == pc[w] \in {"bancheck", "ib_nonce", "ib_auth"}

\* C34: the listener's lock is held by a worker only while that worker is
\* inside accept on that listener; a worker at the ban lookup or in the
\* inbound handshake holds no listener lock, so that while it waits for the
\* auth token another worker of the same listener can take the lock and,
\* once a connection is queued, accept it.
LockOnlyInAccept ==
    /\ \A l \in Listeners : \A w \in Workers : lock[l] = w => InAccept(w, l)
    /\ \A w \in Workers : InHandshake(w) => \A l \in Listeners : lock[l] # w
    /\ \A w, v \in Workers : \A l \in Listeners :
          (pc[w] = "ib_auth" /\ EpOf(w) = l /\ v # w) =>
             /\ (IsEp(v, "Inbound") /\ EpOf(v) = l
                 /\ \A u \in Workers : ~InAccept(u, l)) => ENABLED ListenerLock(v)
             /\ (InAccept(v, l) /\ backlog[l] # <<>>) => ENABLED Accept(v)

\* one worker waits for the auth token of its peer and another worker of
\* the same listener is at the ban lookup of a connection that was queued
\* later
LockOnlyInAcceptWitness ==
    \E w, v \in Workers :
        /\ pc[w] = "ib_auth"
        /\ pc[v] = "bancheck"
        /\ EpOf(w) = EpOf(v)
        /\ cur[v] > cur[w]

\* the mutexes worker w holds, and the mutex it waits for
LocksHeld(w) ==
    { l \in {"in1", "in2"} : cx.listener[l] = w }
        \cup (IF cx.ban = w THEN {"ban"} ELSE {})
LockAwaited(w) ==
    CASE cx.at[w] = "lock" -> {LockEp(w)}
      [] cx.at[w] \in {"banlock", "banwait"} -> {"ban"}
      [] OTHER -> {}

\* worker v holds the mutex worker w waits for
Blocks(v, w) == LockAwaited(w) \cap LocksHeld(v) # {}

\* C35: a worker holds at most one mutex at a time (never a listener's and
\* the ban list's, never two listeners'), and a worker that holds one waits
\* for none; so in no state is there a set of workers each of which waits
\* for a mutex held by a worker of the set, the two routes naming the same
\* two inbound endpoints in opposite order; and the holder of the ban-list
\* mutex can always go on to release it.
LockDiscipline ==
    cx.kind = "locks" =>
       /\ \A w \in {"r1", "r2"} : Cardinality(LocksHeld(w)) <= 1
       /\ \A w \in {"r1", "r2"} : LocksHeld(w) # {} => LockAwaited(w) = {}
       /\ \A S \in SUBSET {"r1", "r2"} :
             S # {} => \E w \in S : \A v \in S : ~Blocks(v, w)
       /\ \A w \in {"r1", "r2"} :
             cx.ban = w => ENABLED (BanLookup(w) \/ BanInserted(w))

\* each worker holds the connection of its endpoint A and is inside accept
\* on the other's endpoint A, holding that listener's mutex
LockDisciplineWitness ==
    /\ cx.kind = "locks"
    /\ \A w \in {"r1", "r2"} :
          /\ cx.st[w] = 2
          /\ cx.at[w] = "accept"
          /\ cx.listener[LockEp(w)] = w

\* worker w has the 4 bytes of the auth token in hand and they do not
\* decrypt to AUTH
AuthMismatch(w) ==
    /\ pc[w] = "ib_auth"
    /\ CanRead(CurStream(w), "l", AUTH_LEN)
    /\ AuthRejected(secret[EpOf(w)], hs[w].nonce, ReceivedAuth(w))

\* C36: every inbound handshake that received 4 auth bytes which do not
\* decrypt to AUTH ends with SecretMismatch(peer ip), and the worker goes on
\* to the ban insert of that address, also when the peer has closed or
\* reset the connection by then.
MismatchAlwaysBans ==
    [][ \A w \in Workers :
          (AuthMismatch(w) /\ pc'[w] # "ib_auth") =>
             /\ err'[w].kind = "SecretMismatch"
             /\ err'[w].ip = PeerIp(CurStream(w), "l")
             /\ pc'[w] = "ban" ]_vars

\* the bytes the accepting side has written on connection c so far
\* (a connection both sides have left is forgotten)
SentByListener(s) == IF s.ep = "dead" THEN <<>> ELSE s.out["l"]

\* C37: when the peer of an inbound handshake has closed before 4 auth bytes
\* arrived, the step that ends the wait for the token fails with a plain
\* I/O error: nothing is written to the peer (the nonce stays the only
\* thing sent), no ban list changes, and the worker is back at the acquire
\* of endpoint A with no sleep and no ban insert pending.
EarlyEofUnpunished ==
    [][ \A w \in Workers :
          (pc[w] = "ib_auth" /\ pc'[w] # "ib_auth"
           /\ ReadEof(CurStream(w), "l", AUTH_LEN)) =>
             \E c \in {cur[w]} :
                /\ err'[w].kind = "UnexpectedEof"
                /\ err'[w].kind \in IoKinds
                /\ SentByListener(streams'[c]) \in {<<>>, streams[c].out["l"]}
                /\ Len(streams[c].out["l"]) = NONCE_LEN
                /\ ban_list' = ban_list
                /\ pc'[w] = "connect"
                /\ stage'[w] = "A"
                /\ timer'[w] = NoTimer ]_vars

\* a peer has sent fewer than 4 bytes and closed on two connections and
\* more, the worker's last error is the end of stream, and its ban list is
\* empty
EarlyEofUnpunishedWitness ==
    \E w \in Workers :
        /\ ProcOf(w) = "R"
        /\ err[w].kind = "UnexpectedEof"
        /\ pc[w] = "connect"
        /\ DOMAIN ban_list[BanListOf(w)] = {}
        /\ Len(streams) >= 2
        /\ \A c \in DOMAIN streams : streams[c].ep = "dead"

\* C38: when the peer of an outbound handshake has closed while the worker
\* waits for the starting byte (the AUTH token is sent, no byte has come
\* back), the wait ends with a plain I/O error, neither NonceEarlyEOF nor
\* SecretRejected; the worker does not sleep and has no ban insert pending:
\* it is back at the acquire of endpoint A at once.
StartEofNoBackoff ==
    [][ \A w \in Workers :
          (pc[w] = "ob_start" /\ pc'[w] # "ob_start"
           /\ (ReadEof(CurStream(w), "d", 1) \/ ReadReset(CurStream(w), "d", 1))) =>
             /\ Len(CurStream(w).out["d"]) = AUTH_LEN
             /\ err'[w].kind \in IoKinds \ {"ConnectionRefused"}
             /\ ReadEof(CurStream(w), "d", 1) => err'[w].kind = "UnexpectedEof"
             /\ pc'[w] = "connect"
             /\ stage'[w] = "A"
             /\ timer'[w] = NoTimer
             /\ ban_list' = ban_list ]_vars

\* the outbound worker is back at the acquire of its tunnel endpoint right
\* after the end of stream it met while waiting for the starting byte
StartEofNoBackoffWitness ==
    \E w \in Workers :
        /\ ProcOf(w) = "C"
        /\ err[w].kind = "UnexpectedEof"
        /\ pc[w] = "connect"
        /\ stage[w] = "A"
        /\ Endpoints[EpOf(w)].kind = "Tunnel"
        /\ timer[w] = NoTimer

\* C39: whatever the error with which the acquire of B fails, connection A
\* is closed in that step; when A is an authenticated inbound tunnel,
\* the nonce is all it has ever written (no 0x01), nothing is written in the
\* step, and its peer, still waiting for the starting byte, finds the end
\* of the stream; a worker at the top of the loop holds no connection.
FailedBClosesA ==
    /\ [](\A w \in Workers : AtTop(w) => HeldConns(w) = {})
    /\ [][ \A w \in Workers :
             (FailStep(w) /\ stage[w] = "B") =>
                /\ held[w].A.variant # "None"
                /\ Closed(streams', held[w].A)
                /\ HeldConns(w)' = {}
                /\ (held[w].A.variant = "Tunnel" /\ held[w].A.is_inbound) =>
                      \E c \in {held[w].A.stream} :
                         /\ Len(streams[c].out["l"]) = NONCE_LEN
                         /\ SentByListener(streams'[c]) \in
                               {<<>>, streams[c].out["l"]}
                         /\ (~streams[c].gone["d"] /\ ~streams[c].rst["d"]) =>
                               ReadEof(streams'[c], "d", 1)
          ]_vars

\* the outbound worker waits for the starting byte on a connection whose
\* inbound side authenticated it and then closed it, the nonce being all
\* that was sent, because the acquire of B failed
FailedBClosesAWitness ==
    \E w, v \in Workers :
        /\ pc[w] = "ob_start"
        /\ ReadEof(CurStream(w), "d", 1)
        /\ CurStream(w).rd["l"] = AUTH_LEN
        /\ Len(CurStream(w).out["l"]) = NONCE_LEN
        /\ err[v].stage = "B"
        /\ err[v].kind # "none"
        /\ HeldConns(v) = {}

\* the keystream positions cipher k of a copy task has applied so far
AppliedPositions(k) == NewCipher(k.key, k.nonce).pos .. (k.pos - 1)

\* C40: the copy tasks of a relay never apply keystream positions 0..3 of
\* the (secret, nonce) of their tunnel, the ones that encrypted the AUTH
\* token, to payload; so the keystream bytes an observer gets from the
\* token on the wire (token XOR "AUTH") do not uncover the first payload
\* bytes the outbound end sends.
AuthKeystreamNotReused ==
    \A w \in Workers : \A x, y \in HeldConns(w) :
        TunnelDirect(w, x, y) =>
           /\ \A k \in {ReadTask(w, x).ciphers[1], WriteTask(w, x).ciphers[1]} :
                 \A i \in AppliedPositions(k) : i >= AUTH_LEN
           /\ ~x.is_inbound =>
                 \A j \in 1..Min(AUTH_LEN, Len(ToTunnel(x))) :
                     Xor(Xor(streams[x.stream].out[x.side][j], AUTH[j]),
                         ToTunnel(x)[j]) # FromTarget(y)[j]

====
